---- MODULE Spec2Model ----
(***************************************************************************)
(* One invocation of StagingPartitionSwitchStrategy.refresh_table          *)
(* (src/src/refresh_strategies.py) against a target database whose         *)
(* partition function, live table, staging table and holder tables are     *)
(* part of the state.  Every handler operation either takes effect or      *)
(* raises; `log` records the operations in the order they were issued.     *)
(* SpecStrategies adds get_strategy and SimpleCopyStrategy, SpecService    *)
(* the table loop of DataRefreshService (src/src/data_refresh.py), and     *)
(* SpecDerive runs the boundary derivation on its own.  SpecWhere runs     *)
(* the incremental predicate on its own, SpecSimple the simple copy over   *)
(* int and date columns, and SpecRetry a failed invocation followed by a   *)
(* second one for the same table.  SpecTwice runs two simple copies over   *)
(* an unchanged source, SpecConcurrent two staging-switch invocations for  *)
(* one table at one time, and SpecConnection one handler operation inside  *)
(* DatabaseConnection.get_connection (src/src/database.py).                *)
(***************************************************************************)
EXTENDS Integers, Sequences, FiniteSets, TLC

\* ---------------------------------------------------------------- bounds
MaxDay == 2        \* calendar days 1..MaxDay after BaseDate
MaxRows == 2       \* rows the source query returns at most
MaxIndexes == 2    \* indexes of the live table at most

\* ------------------------------------------------------ program constants
BaseDate == 20250206
DefaultStagingBatch == 10000
DefaultSimpleBatch == 5000

Days == 1..MaxDay
Ymd(d) == BaseDate + d

\* A column value: kind "int" carries a pre-encoded YYYYMMDD integer in n,
\* kind "datetime" (a datetime.datetime) and kind "date" (a datetime.date)
\* the day index in n, kind "str" the number of a text (see Text) in n,
\* kind "none" is NULL / None.
IntVal(n) == [kind |-> "int", n |-> n]
DatetimeVal(d) == [kind |-> "datetime", n |-> d]
DateVal(d) == [kind |-> "date", n |-> d]
StrVal(form, d) == [kind |-> "str", n |-> 10 * d + form]
NoneVal == [kind |-> "none", n |-> 0]

RowValues == {IntVal(Ymd(d)) : d \in Days} \cup {NoneVal}

RECURSIVE SeqsUpTo(_, _)
SeqsUpTo(S, n) ==
    IF n = 0 THEN {<<>>}
    ELSE LET shorter == SeqsUpTo(S, n - 1)
         IN shorter \cup {Append(s, x) : s \in {t \in shorter : Len(t) = n - 1}, x \in S}

\* The batches a source query may return.  The order of the rows of a batch
\* is read by nothing but the batching of bulk_insert, so one order of each
\* batch is kept: by ascending column value.
DataSeqs ==
    {s \in SeqsUpTo(RowValues, MaxRows) : \A i \in 1..(Len(s) - 1) : s[i].n <= s[i + 1].n}

ToSet(s) == {s[i] : i \in 1..Len(s)}

RECURSIVE SortedSeq(_)
SortedSeq(S) ==
    IF S = {} THEN <<>>
    ELSE LET m == CHOOSE x \in S : \A y \in S : x <= y
         IN <<m>> \o SortedSeq(S \ {m})

IsPrefix(s, t) == Len(s) <= Len(t) /\ \A i \in 1..Len(s) : s[i] = t[i]

\* ------------------------------------------------------------ exceptions
NoExc == [op |-> "none", arg |-> 0]
Exc(op, arg) == [op |-> op, arg |-> arg]

\* --------------------------------------------------------- configuration
SyncModes == {"full_replace", "incremental"}

\* The fields of TableConfig that refresh_table reads.  incremental_type and
\* date_buffer_days are read only when a watermark was found, where
\* identity (any buffer) and date without buffer build the same clause:
\* one configuration of each behaviour is kept.
TableConfigs ==
    {c \in [sync_mode : SyncModes,
            incremental_column : BOOLEAN,
            incremental_type : {"identity", "date"},
            date_buffer_days : {0, 7},
            batch_size : {0, 1}] :
        /\ (c.sync_mode = "full_replace" => c.incremental_type = "identity")
        /\ (c.incremental_type = "identity" <=> c.date_buffer_days = 0)}

VARIABLES pc, cfg, boundaries, preBoundaries, liveRows, preLive, staging,
          holders, log, data, required_partitions, existing_partitions,
          missing_partitions, partitions_created, rows_inserted, indexes,
          indexesTodo, swIdx, partition_number, watermark, exc, result,
          entered, returned, svc, target_count, column_kind, attempt, source

vars == <<pc, cfg, boundaries, preBoundaries, liveRows, preLive, staging,
          holders, log, data, required_partitions, existing_partitions,
          missing_partitions, partitions_created, rows_inserted, indexes,
          indexesTodo, swIdx, partition_number, watermark, exc, result,
          entered, returned, svc, target_count, column_kind, attempt, source>>

\* --------------------------------------------------- pure helper functions
\* Texts are sequences of one-character strings.
DigitChars == <<"0", "1", "2", "3", "4", "5", "6", "7", "8", "9">>
IsDigit(ch) == \E k \in 1..10 : DigitChars[k] = ch
DigitVal(ch) == (CHOOSE k \in 1..10 : DigitChars[k] = ch) - 1
AllDigits(t) == \A i \in 1..Len(t) : IsDigit(t[i])

\* The decimal text of n, zero-padded to w characters.
RECURSIVE Pad(_, _)
Pad(n, w) == IF w = 0 THEN <<>> ELSE Pad(n \div 10, w - 1) \o <<DigitChars[(n % 10) + 1]>>

\* int(text) of a text of digits.
RECURSIVE ToInt(_)
ToInt(t) ==
    IF t = <<>> THEN 0
    ELSE 10 * ToInt(SubSeq(t, 1, Len(t) - 1)) + DigitVal(t[Len(t)])

Take(t, k) == SubSeq(t, 1, IF Len(t) < k THEN Len(t) ELSE k)

\* The calendar date of day index d: the days after BaseDate, within its month.
CalDate(d) == [year |-> BaseDate \div 10000, month |-> (BaseDate \div 100) % 100,
               day |-> (BaseDate % 100) + d]

DaysInMonth(y, m) ==
    IF m = 2 THEN (IF y % 4 = 0 /\ (y % 100 # 0 \/ y % 400 = 0) THEN 29 ELSE 28)
    ELSE IF m \in {4, 6, 9, 11} THEN 30 ELSE 31

\* strftime("%Y%m%d") of a date or datetime.
Strftime(c) == Pad(c.year, 4) \o Pad(c.month, 2) \o Pad(c.day, 2)

\* str() of a datetime.date: ISO format.
IsoDate(c) == Pad(c.year, 4) \o <<"-">> \o Pad(c.month, 2) \o <<"-">> \o Pad(c.day, 2)

\* The text numbered n: of day n \div 10, in the form n % 10, which is
\* 1 for YYYYMMDD, 2 for YYYYMMDD followed by an hour, 3 for the ISO date;
\* any other number is the empty text.
Text(n) ==
    LET c == CalDate(n \div 10)
    IN CASE n % 10 = 1 -> Strftime(c)
         [] n % 10 = 2 -> Strftime(c) \o <<" ", "1", "0">>
         [] n % 10 = 3 -> IsoDate(c)
         [] OTHER -> <<>>

\* str(date_value) of line 234 for the values that reach it.
Str(v) == IF v.kind = "date" THEN IsoDate(CalDate(v.n)) ELSE Text(v.n)

\* datetime.strptime(t, "%Y%m%d"): four digits of year, a month of two
\* digits or one, a day of two digits or one, which must use up the text
\* and name a date of the calendar; ValueError otherwise.
Strptime(t) ==
    LET Tok(from, len, max) ==
            /\ from + len - 1 <= Len(t)
            /\ AllDigits(SubSeq(t, from, from + len - 1))
            /\ ToInt(SubSeq(t, from, from + len - 1)) \in 1..max
        splits == {sp \in {<<2, 2>>, <<2, 1>>, <<1, 2>>, <<1, 1>>} :
                     /\ Len(t) = 4 + sp[1] + sp[2]
                     /\ AllDigits(SubSeq(t, 1, 4))
                     /\ Tok(5, sp[1], 12)
                     /\ Tok(5 + sp[1], sp[2], 31)}
    IN IF splits = {}
       THEN [ok |-> FALSE, date |-> CalDate(0)]
       ELSE LET sp == CHOOSE x \in splits : \A y \in splits : x[1] >= y[1]
                y == ToInt(SubSeq(t, 1, 4))
                m == ToInt(SubSeq(t, 5, 4 + sp[1]))
                d == ToInt(SubSeq(t, 5 + sp[1], Len(t)))
            IN [ok |-> y >= 1 /\ d <= DaysInMonth(y, m),
                date |-> [year |-> y, month |-> m, day |-> d]]

\* date_value is truthy (line 227): not None, not the integer 0, not the
\* empty text.
Truthy(v) ==
    /\ v.kind # "none"
    /\ ~(v.kind = "int" /\ v.n = 0)
    /\ ~(v.kind = "str" /\ Text(v.n) = <<>>)

\* The branch of lines 232-238: the first eight characters of str(value)
\* parsed as %Y%m%d.
ParsedDate(v) == Strptime(Take(Str(v), 8))

\* The value gets a partition_date: a datetime and an int always, anything
\* else when its text parses (a ValueError skips the row, lines 236-238).
Parses(v) == v.kind \in {"datetime", "int"} \/ ParsedDate(v).ok

\* The partition_date of one truthy value (lines 228-235):
\* int(strftime("%Y%m%d")) of a datetime, an int as it is, and
\* int(strftime("%Y%m%d")) of the parsed date of anything else.
PartitionDate(v) ==
    IF v.kind = "datetime" THEN ToInt(Strftime(CalDate(v.n)))
    ELSE IF v.kind = "int" THEN v.n
    ELSE ToInt(Strftime(ParsedDate(v).date))

\* _get_required_partitions (lines 218-242).
GetRequiredPartitions(d, c) ==
    IF d = <<>> \/ ~c.incremental_column THEN <<>>
    ELSE SortedSeq({PartitionDate(d[i]) :
                       i \in {j \in 1..Len(d) : Truthy(d[j]) /\ Parses(d[j])}})

\* missing_partitions (line 270): the required values not in existing, in
\* the order of required.
MissingNoFilter(required, existing) == required
MissingPartitions(required, existing) ==
    SelectSeq(required, LAMBDA p : p \notin ToSet(existing))

\* _build_incremental_where_clause (lines 120-138) for a watermark value w:
\* identity compares strictly with w; date and datetime subtract
\* timedelta(days = date_buffer_days) and compare inclusively when the
\* buffer is positive, else compare strictly with w; any other type
\* compares strictly with w.  Dates are day ordinals, so the subtraction
\* of a timedelta is the subtraction of its days; a watermark that is no
\* date (an int, a str) minus a timedelta raises TypeError.
BuildWhereStrict(c, w) == [raises |-> FALSE, cmp |-> ">", bound |-> w.n]
BuildWhere(c, w) ==
    IF c.incremental_type = "identity"
    THEN [raises |-> FALSE, cmp |-> ">", bound |-> w.n]
    ELSE IF c.incremental_type \in {"date", "datetime"}
         THEN IF c.date_buffer_days > 0
              THEN IF w.kind \in {"date", "datetime"}
                   THEN [raises |-> FALSE, cmp |-> ">=",
                         bound |-> w.n - c.date_buffer_days]
                   ELSE [raises |-> TRUE, cmp |-> ">=", bound |-> 0]
              ELSE [raises |-> FALSE, cmp |-> ">", bound |-> w.n]
         ELSE [raises |-> FALSE, cmp |-> ">", bound |-> w.n]

\* The key the database files a row under: NULL sorts into the leftmost
\* partition, like 0.
PartitionKey(v) ==
    IF v.kind = "none" THEN 0
    ELSE IF v.kind = "date" THEN ToInt(Strftime(CalDate(v.n)))
    ELSE PartitionDate(v)

\* The value a comparison of the column reads: the day ordinal of a date,
\* the integer of an int column.
ColumnOrd(v) == IF v.kind \in {"date", "datetime"} THEN v.n ELSE PartitionKey(v)

\* $PARTITION.pf(key) for a RANGE LEFT partition function (lines 368-371).
PartNum(key, bnds) == 1 + Cardinality({b \in bnds : b < key})

\* The rows of a WHERE-restricted SELECT: NULL never satisfies a comparison.
Satisfies(v, w) ==
    /\ v.kind # "none"
    /\ IF w.cmp = ">" THEN ColumnOrd(v) > w.bound ELSE ColumnOrd(v) >= w.bound

\* MAX(column) over the live table (database.py line 85): no rows, or only
\* NULLs, give None (the empty set).
MaxValueOrZero(rows) ==
    LET keys == {r.key : r \in {x \in rows : x.key # 0}}
    IN {IntVal(CHOOSE k \in keys \cup {0} : \A o \in keys : o <= k)}
MaxValue(rows) ==
    LET keys == {r.key : r \in {x \in rows : x.key # 0}}
    IN IF keys = {} THEN {}
       ELSE {IntVal(CHOOSE k \in keys : \A o \in keys : o <= k)}

\* A value of the live column as the driver hands it over: a date for a
\* date column, the pre-encoded integer for an int column.
AsColumn(kind, v) == IF kind = "date" THEN DateVal(v.n - BaseDate) ELSE v

\* The batches a source query may return from a table whose column is of
\* the kind.
DateSeqs ==
    {s \in SeqsUpTo({DateVal(d) : d \in Days} \cup {NoneVal}, MaxRows) :
        \A i \in 1..(Len(s) - 1) : s[i].n <= s[i + 1].n}
SourceSeqs(kind) == IF kind = "date" THEN DateSeqs ELSE DataSeqs

\* The source table as the refresh finds it: any content at each query, or
\* the fixed rows of a source that does not change between two refreshes.
AnySource == [fixed |-> FALSE, rows |-> <<>>]
FixedSource(rows) == [fixed |-> TRUE, rows |-> rows]

\* The first `limit` rows of t in the order of some other column (ORDER BY
\* 1 ... FETCH NEXT limit ROWS ONLY, lines 42-43): `limit` rows of t.
LimitedTo(t, limit) ==
    IF limit = 0 \/ Len(t) <= limit THEN {t}
    ELSE {[k \in 1..limit |-> t[SortedSeq(I)[k]]] :
             I \in {J \in SUBSET (1..Len(t)) : Cardinality(J) = limit}}

\* The tables a SELECT * of the source may read, cut to `limit` rows when
\* that is not 0.
Answers(src, kind, limit) ==
    IF src.fixed THEN LimitedTo(src.rows, limit)
    ELSE {x \in SourceSeqs(kind) : limit = 0 \/ Len(x) <= limit}

\* A row as INSERT adds it (database.py lines 112-125): a row of its own
\* beside whatever the table holds, no uniqueness being declared.
NewRowMerged(i, v) ==
    [src |-> "old", n |-> PartitionKey(v) - BaseDate, key |-> PartitionKey(v)]
NewRow(i, v) == [src |-> "new", n |-> i, key |-> PartitionKey(v)]
OldRow(d) == [src |-> "old", n |-> d, key |-> Ymd(d)]

\* batch_size or 10000 (line 162).
BatchSize(c) == IF c.batch_size = 0 THEN DefaultStagingBatch ELSE c.batch_size

\* number of batches bulk_insert commits for n rows (database.py line 119).
NumBatches(n, bs) == (n + bs - 1) \div bs

Min(a, b) == IF a < b THEN a ELSE b

NoStaging == [exists |-> FALSE, rows |-> {}, indexes |-> {}]
NoResult == [status |-> "none", rows_processed |-> 0,
             partitions_created |-> <<>>, exc |-> NoExc]

\* The service around the strategies when no batch run is in progress:
\* the configured tables, the names still to refresh, the position in
\* them, the results returned so far, and settings.dry_run.
NoSvc == [tables |-> <<>>, names |-> <<>>, idx |-> 0, results |-> <<>>,
          dry_run |-> FALSE]

\* ----------------------------------------------------------------- Init
Init ==
    /\ pc = "start"
    /\ cfg \in TableConfigs
    /\ boundaries \in SUBSET {Ymd(d) : d \in Days}
    /\ preBoundaries = boundaries
    /\ \E k \in 0..MaxDay : liveRows = {OldRow(d) : d \in 1..k}
    /\ preLive = liveRows
    /\ staging = NoStaging
    /\ holders = <<>>
    /\ log = <<>>
    /\ data = <<>>
    /\ required_partitions = <<>>
    /\ existing_partitions = <<>>
    /\ missing_partitions = <<>>
    /\ partitions_created = <<>>
    /\ rows_inserted = 0
    /\ indexes = 0
    /\ indexesTodo = <<>>
    /\ swIdx = 0
    /\ partition_number = 0
    /\ watermark = {}
    /\ exc = NoExc
    /\ result = NoResult
    /\ entered = {}
    /\ returned = {}
    /\ svc = NoSvc
    /\ target_count = 0
    /\ column_kind = "int"
    /\ attempt = 1
    /\ source = AnySource

\* ------------------------------------------------------- building blocks
Entry(h, op, arg, ok) == [h |-> h, op |-> op, arg |-> arg, ok |-> ok]
Issue(h, op, arg, ok) == log' = Append(log, Entry(h, op, arg, ok))

dbVars == <<boundaries, liveRows, staging, holders>>
configVars == <<cfg, preBoundaries, preLive, svc, column_kind, attempt, source>>
histVars == <<configVars, target_count>>
fetchVars == <<data, required_partitions, watermark>>
planVars == <<existing_partitions, missing_partitions, partitions_created>>
indexVars == <<indexes, indexesTodo>>
switchVars == <<swIdx, partition_number>>
callVars == <<entered, returned>>

\* except Exception as e (lines 188-191): cleanup, then re-raise.
RaiseNoCleanup(e) ==
    /\ pc' = "done"
    /\ exc' = e
    /\ result' = [NoResult EXCEPT !.status = "raised", !.exc = e]
Raise(e) ==
    /\ pc' = "cleanup"
    /\ exc' = e
    /\ result' = result

Continue(next) ==
    /\ pc' = next
    /\ exc' = exc
    /\ result' = result

\* ------------------------------------------------------------ step 1: fetch
\* refresh_table entry (lines 142-153): choose the fetch by sync_mode.
Start ==
    /\ pc = "start"
    /\ Continue(IF cfg.sync_mode = "incremental" THEN "get_max_value" ELSE "full_query")
    /\ entered' = entered \cup {"refresh_table"}
    /\ UNCHANGED <<dbVars, histVars, fetchVars, planVars, indexVars, switchVars,
                   log, rows_inserted, returned>>

\* target_handler.get_max_value (line 203; database.py lines 84-91): a failing
\* query is logged and answered with None.  MAX(None) of an unset column
\* is no valid query.
GetMaxValue ==
    /\ pc = "get_max_value"
    /\ \/ /\ cfg.incremental_column
          /\ Issue("target", "get_max_value", 0, TRUE)
          /\ watermark' = {AsColumn(column_kind, w) : w \in MaxValue(liveRows)}
       \/ /\ Issue("target", "get_max_value", 0, FALSE)
          /\ watermark' = {}
    /\ Continue(IF watermark' = {} THEN "full_query" ELSE "incremental_query")
    /\ UNCHANGED <<dbVars, histVars, data, required_partitions, planVars, indexVars,
                   switchVars, rows_inserted, callVars>>

\* `if data:` of refresh_table (lines 155-165) up to the call of
\* _ensure_partitions_exist, whose empty-list return (lines 266-267) is
\* taken here.
AfterFetchAlwaysStages(d) ==
    /\ data' = d
    /\ required_partitions' = GetRequiredPartitions(d, cfg)
    /\ Continue("create_staging")
    /\ returned' = returned \cup {"_ensure_partitions_exist"}
AfterFetch(d) ==
    /\ data' = d
    /\ required_partitions' = GetRequiredPartitions(d, cfg)
    /\ IF d = <<>>
       THEN /\ Continue("cleanup")
            /\ UNCHANGED returned
       ELSE IF required_partitions' = <<>>
            THEN /\ Continue("create_staging")
                 /\ returned' = returned \cup {"_ensure_partitions_exist"}
            ELSE /\ Continue("get_existing_partitions")
                 /\ UNCHANGED returned

\* _get_full_data (lines 214-216).
GetFullData ==
    /\ pc = "full_query"
    /\ \/ \E src \in DataSeqs :
             /\ Issue("source", "select_all", 0, TRUE)
             /\ AfterFetch(src)
       \/ /\ Issue("source", "select_all", 0, FALSE)
          /\ Raise(Exc("select_all", 0))
          /\ UNCHANGED <<data, required_partitions, returned>>
    /\ UNCHANGED <<dbVars, histVars, watermark, planVars, indexVars, switchVars,
                   rows_inserted, entered>>

\* _get_incremental_data with a watermark (lines 208-212).
GetIncrementalData ==
    /\ pc = "incremental_query"
    /\ LET w == CHOOSE x \in watermark : TRUE
           where == BuildWhere(cfg, w)
       IN \/ /\ where.raises
             /\ Issue("local", "build_where", 0, FALSE)
             /\ Raise(Exc("build_where", 0))
             /\ UNCHANGED <<data, required_partitions, returned>>
          \/ /\ ~where.raises
             /\ \E src \in DataSeqs :
                   /\ Issue("source", "select_where", where.bound, TRUE)
                   /\ AfterFetch(SelectSeq(src, LAMBDA v : Satisfies(v, where)))
          \/ /\ ~where.raises
             /\ Issue("source", "select_where", where.bound, FALSE)
             /\ Raise(Exc("select_where", where.bound))
             /\ UNCHANGED <<data, required_partitions, returned>>
    /\ UNCHANGED <<dbVars, histVars, watermark, planVars, indexVars, switchVars,
                   rows_inserted, entered>>

\* ------------------------------------------------- step 2: plan and stage
\* _get_existing_partitions (lines 244-263) and line 270: a failing lookup
\* is logged and answered with the empty list.
GetExistingPartitions ==
    /\ pc = "get_existing_partitions"
    /\ \/ /\ Issue("target", "existing_partitions", 0, TRUE)
          /\ existing_partitions' = SortedSeq(boundaries)
       \/ /\ Issue("target", "existing_partitions", 0, FALSE)
          /\ existing_partitions' = <<>>
    /\ missing_partitions' = MissingPartitions(required_partitions, existing_partitions')
    /\ IF missing_partitions' = <<>>
       THEN /\ Continue("create_staging")
            /\ returned' = returned \cup {"_ensure_partitions_exist"}
       ELSE /\ Continue("create_partition")
            /\ UNCHANGED returned
    /\ UNCHANGED <<dbVars, histVars, fetchVars, partitions_created, indexVars,
                   switchVars, rows_inserted, entered>>

\* except Exception of _ensure_partitions_exist (lines 279-281): log and
\* re-raise, which ends the loop and reaches the handler of refresh_table.
EnsureContinue(e) ==
    /\ exc' = exc
    /\ result' = result
    /\ missing_partitions' = Tail(missing_partitions)
    /\ IF missing_partitions' = <<>>
       THEN /\ pc' = "create_staging"
            /\ returned' = returned \cup {"_ensure_partitions_exist"}
       ELSE /\ pc' = "create_partition"
            /\ returned' = returned
EnsureExcept(e) ==
    /\ Raise(e)
    /\ UNCHANGED <<missing_partitions, returned>>

\* One turn of the loop of _ensure_partitions_exist (lines 274-281) with
\* _create_partition (lines 285-294).  SPLIT RANGE on a value that is a
\* boundary already is an error of the database.
CreatePartition ==
    /\ pc = "create_partition"
    /\ LET p == Head(missing_partitions)
       IN \/ /\ p \notin boundaries
             /\ Issue("target", "split_range", p, TRUE)
             /\ boundaries' = boundaries \cup {p}
             /\ partitions_created' = Append(partitions_created, p)
             /\ missing_partitions' = Tail(missing_partitions)
             /\ IF missing_partitions' = <<>>
                THEN /\ Continue("create_staging")
                     /\ returned' = returned \cup {"_ensure_partitions_exist"}
                ELSE /\ Continue("create_partition")
                     /\ UNCHANGED returned
          \/ /\ Issue("target", "split_range", p, FALSE)
             /\ EnsureExcept(Exc("split_range", p))
             /\ UNCHANGED <<boundaries, partitions_created>>
    /\ UNCHANGED <<liveRows, staging, holders, histVars, fetchVars, existing_partitions,
                   indexVars, switchVars, rows_inserted, entered>>

\* _create_staging_table (lines 193-200): SELECT ... INTO an existing table
\* is an error of the database.
CreateStagingTable ==
    /\ pc = "create_staging"
    /\ \/ /\ ~staging.exists
          /\ Issue("target", "create_staging", 0, TRUE)
          /\ staging' = [exists |-> TRUE, rows |-> {}, indexes |-> {}]
          /\ Continue("bulk_insert")
       \/ /\ Issue("target", "create_staging", 0, FALSE)
          /\ Raise(Exc("create_staging", 0))
          /\ UNCHANGED staging
    /\ UNCHANGED <<boundaries, liveRows, holders, histVars, fetchVars, planVars,
                   indexVars, switchVars, rows_inserted, callVars>>

\* `if rows_inserted > 0:` (lines 167-171): indexes and switch follow a
\* load that inserted rows, the cleanup one that inserted none.
AfterLoadReconciles(n) == "get_existing_partitions"
AfterLoad(n) == IF n > 0 THEN "apply_indexes" ELSE "cleanup"

\* target_handler.bulk_insert into the staging table (lines 161-167;
\* database.py lines 106-129): the batches are committed one by one, so a
\* failure leaves the batches committed before it.
BulkInsert ==
    /\ pc = "bulk_insert"
    /\ LET bs == BatchSize(cfg)
           nb == NumBatches(Len(data), bs)
           Loaded(k) == {NewRow(i, data[i]) : i \in 1..Min(k * bs, Len(data))}
       IN \/ /\ Issue("target", "bulk_insert", Len(data), TRUE)
             /\ staging' = [staging EXCEPT !.rows = @ \cup Loaded(nb)]
             /\ rows_inserted' = Len(data)
             /\ Continue(AfterLoad(rows_inserted'))
          \/ \E k \in 0..(nb - 1) :
                /\ Issue("target", "bulk_insert", Len(data), FALSE)
                /\ staging' = [staging EXCEPT !.rows = @ \cup Loaded(k)]
                /\ Raise(Exc("bulk_insert", Len(data)))
                /\ UNCHANGED rows_inserted
    /\ UNCHANGED <<boundaries, liveRows, holders, histVars, fetchVars, planVars,
                   indexVars, switchVars, callVars>>

\* ------------------------------------------- step 3a: index replication
\* except Exception of _apply_indexes_and_constraints (lines 328-329): the
\* failure is logged and the method returns.
IndexRaises(e) == Raise(e)
IndexExcept(e) == Continue("switch_partitions")

\* The query for the live table's indexes (lines 313-314).
ApplyIndexes ==
    /\ pc = "apply_indexes"
    /\ \/ \E n \in 0..MaxIndexes :
             /\ Issue("target", "indexes_query", 0, TRUE)
             /\ indexes' = n
             /\ indexesTodo' = [i \in 1..n |-> i]
             /\ Continue(IF n = 0 THEN "switch_partitions" ELSE "create_index")
       \/ /\ Issue("target", "indexes_query", 0, FALSE)
          /\ IndexExcept(Exc("indexes_query", 0))
          /\ UNCHANGED indexVars
    /\ UNCHANGED <<dbVars, histVars, fetchVars, planVars, switchVars, rows_inserted,
                   callVars>>

\* One turn of the loop over the indexes (lines 316-326), inside the one
\* try block of the method.
CreateIndex ==
    /\ pc = "create_index"
    /\ LET i == Head(indexesTodo)
       IN \/ /\ Issue("target", "create_index", i, TRUE)
             /\ staging' = [staging EXCEPT !.indexes = @ \cup {i}]
             /\ indexesTodo' = Tail(indexesTodo)
             /\ Continue(IF indexesTodo' = <<>> THEN "switch_partitions" ELSE "create_index")
          \/ /\ Issue("target", "create_index", i, FALSE)
             /\ IndexExcept(Exc("create_index", i))
             /\ UNCHANGED <<staging, indexesTodo>>
    /\ UNCHANGED <<boundaries, liveRows, holders, histVars, fetchVars, planVars,
                   indexes, switchVars, rows_inserted, callVars>>

\* ------------------------------------------- step 3b: partition switching
\* The order of the statements of one partition's switch (lines 338, 354-357).
SwitchNextSwapped(step) ==
    CASE step = "partition_number" -> "create_holder"
      [] step = "create_holder" -> "switch_in"
      [] step = "switch_in" -> "switch_out"
      [] step = "switch_out" -> "drop_holder"
SwitchNext(step) ==
    CASE step = "partition_number" -> "create_holder"
      [] step = "create_holder" -> "switch_out"
      [] step = "switch_out" -> "switch_in"
      [] step = "switch_in" -> "drop_holder"

\* except Exception of _switch_partitions (lines 361-363): log and re-raise,
\* which ends the loop and reaches the handler of refresh_table.
SwitchContinue(e) ==
    /\ exc' = exc
    /\ result' = result
    /\ IF swIdx < Len(required_partitions)
       THEN swIdx' = swIdx + 1 /\ pc' = "partition_number"
       ELSE swIdx' = swIdx /\ pc' = "cleanup"
SwitchExcept(e) ==
    /\ Raise(e)
    /\ swIdx' = swIdx

\* _switch_partitions entry (lines 331-336).
SwitchPartitions ==
    /\ pc = "switch_partitions"
    /\ entered' = entered \cup {"_switch_partitions"}
    /\ IF required_partitions = <<>>
       THEN Continue("cleanup") /\ swIdx' = swIdx
       ELSE Continue("partition_number") /\ swIdx' = 1
    /\ UNCHANGED <<dbVars, histVars, fetchVars, planVars, indexVars, partition_number,
                   log, rows_inserted, returned>>

\* _get_partition_number (lines 365-377): the query may raise, and an empty
\* result raises ValueError.
GetPartitionNumber ==
    /\ pc = "partition_number"
    /\ LET d == required_partitions[swIdx]
       IN \/ /\ Issue("target", "partition_number", d, TRUE)
             /\ partition_number' = PartNum(d, boundaries)
             /\ Continue(SwitchNext("partition_number"))
             /\ swIdx' = swIdx
          \/ /\ log' = log \o <<Entry("target", "partition_number", d, TRUE),
                                Entry("local", "partition_number_result", d, FALSE)>>
             /\ SwitchExcept(Exc("partition_number_result", d))
             /\ UNCHANGED partition_number
          \/ /\ Issue("target", "partition_number", d, FALSE)
             /\ SwitchExcept(Exc("partition_number", d))
             /\ UNCHANGED partition_number
    /\ UNCHANGED <<dbVars, histVars, fetchVars, planVars, indexVars, rows_inserted,
                   callVars>>

\* SELECT TOP 0 * INTO <table>_temp_<date> (line 354): an error of the
\* database when that table exists.
CreateHolder ==
    /\ pc = "create_holder"
    /\ LET d == required_partitions[swIdx]
       IN \/ /\ d \notin DOMAIN holders
             /\ Issue("target", "create_holder", d, TRUE)
             /\ holders' = [x \in DOMAIN holders \cup {d} |->
                               IF x = d THEN {} ELSE holders[x]]
             /\ Continue(SwitchNext("create_holder"))
             /\ swIdx' = swIdx
          \/ /\ Issue("target", "create_holder", d, FALSE)
             /\ SwitchExcept(Exc("create_holder", d))
             /\ UNCHANGED holders
    /\ UNCHANGED <<boundaries, liveRows, staging, histVars, fetchVars, planVars,
                   indexVars, partition_number, rows_inserted, callVars>>

\* ALTER TABLE <table> SWITCH PARTITION n TO <holder> (lines 342-345, 355).
SwitchOut ==
    /\ pc = "switch_out"
    /\ LET d == required_partitions[swIdx]
           moved == {r \in liveRows : PartNum(r.key, boundaries) = partition_number}
       IN \/ /\ Issue("target", "switch_out", d, TRUE)
             /\ liveRows' = liveRows \ moved
             /\ holders' = [holders EXCEPT ![d] = @ \cup moved]
             /\ Continue(SwitchNext("switch_out"))
             /\ swIdx' = swIdx
          \/ /\ Issue("target", "switch_out", d, FALSE)
             /\ SwitchExcept(Exc("switch_out", d))
             /\ UNCHANGED <<liveRows, holders>>
    /\ UNCHANGED <<boundaries, staging, histVars, fetchVars, planVars, indexVars,
                   partition_number, rows_inserted, callVars>>

\* ALTER TABLE <staging> SWITCH PARTITION n TO <table> PARTITION n
\* (lines 347-350, 356).
SwitchIn ==
    /\ pc = "switch_in"
    /\ LET d == required_partitions[swIdx]
           moved == {r \in staging.rows : PartNum(r.key, boundaries) = partition_number}
       IN \/ /\ Issue("target", "switch_in", d, TRUE)
             /\ liveRows' = liveRows \cup moved
             /\ staging' = [staging EXCEPT !.rows = @ \ moved]
             /\ Continue(SwitchNext("switch_in"))
             /\ swIdx' = swIdx
          \/ /\ Issue("target", "switch_in", d, FALSE)
             /\ SwitchExcept(Exc("switch_in", d))
             /\ UNCHANGED <<liveRows, staging>>
    /\ UNCHANGED <<boundaries, holders, histVars, fetchVars, planVars, indexVars,
                   partition_number, rows_inserted, callVars>>

\* DROP TABLE IF EXISTS <holder> (lines 352, 357), then the next partition
\* of the loop (line 336).
DropHolder ==
    /\ pc = "drop_holder"
    /\ LET d == required_partitions[swIdx]
       IN \/ /\ Issue("target", "drop_holder", d, TRUE)
             /\ holders' = [x \in DOMAIN holders \ {d} |-> holders[x]]
             /\ IF swIdx < Len(required_partitions)
                THEN Continue("partition_number") /\ swIdx' = swIdx + 1
                ELSE Continue("cleanup") /\ swIdx' = swIdx
          \/ /\ Issue("target", "drop_holder", d, FALSE)
             /\ SwitchExcept(Exc("drop_holder", d))
             /\ UNCHANGED holders
    /\ UNCHANGED <<boundaries, liveRows, staging, histVars, fetchVars, planVars,
                   indexVars, partition_number, rows_inserted, callVars>>

\* ------------------------------------------------------- step 4: cleanup
\* The outcome of refresh_table: the result of lines 176-186, or the
\* exception e re-raised by line 191.
Finish(e) ==
    /\ pc' = "done"
    /\ exc' = exc
    /\ result' = IF e = NoExc
                 THEN [status |-> "success", strategy |-> "staging_partition_switch",
                       sync_mode |-> cfg.sync_mode, rows_processed |-> rows_inserted,
                       partitions_created |-> partitions_created, exc |-> NoExc]
                 ELSE [NoResult EXCEPT !.status = "raised", !.exc = e]

\* except Exception of _cleanup_staging (lines 384-385): the failure of
\* the drop is logged, and the caller goes on with what it had.
CleanupEscalates(e) == Finish(e)
CleanupExcept(e) == Finish(exc)

\* _cleanup_staging (lines 379-385), called from line 171 or from line 189.
CleanupStaging ==
    /\ pc = "cleanup"
    /\ \/ /\ Issue("target", "drop_staging", 0, TRUE)
          /\ staging' = NoStaging
          /\ Finish(exc)
       \/ /\ Issue("target", "drop_staging", 0, FALSE)
          /\ CleanupExcept(Exc("drop_staging", 0))
          /\ UNCHANGED staging
    /\ UNCHANGED <<boundaries, liveRows, holders, histVars, fetchVars, planVars,
                   indexVars, switchVars, rows_inserted, callVars>>

Next ==
    \/ Start
    \/ GetMaxValue
    \/ GetFullData
    \/ GetIncrementalData
    \/ GetExistingPartitions
    \/ CreatePartition
    \/ CreateStagingTable
    \/ BulkInsert
    \/ ApplyIndexes
    \/ CreateIndex
    \/ SwitchPartitions
    \/ GetPartitionNumber
    \/ CreateHolder
    \/ SwitchOut
    \/ SwitchIn
    \/ DropHolder
    \/ CleanupStaging

Spec == Init /\ [][Next]_vars

\* ------------------------------------- boundary derivation on its own
\* The per-invocation variables before refresh_table has done anything.
FreshCall ==
    /\ staging = NoStaging
    /\ holders = <<>>
    /\ log = <<>>
    /\ required_partitions = <<>>
    /\ existing_partitions = <<>>
    /\ missing_partitions = <<>>
    /\ partitions_created = <<>>
    /\ rows_inserted = 0
    /\ indexes = 0
    /\ indexesTodo = <<>>
    /\ swIdx = 0
    /\ partition_number = 0
    /\ watermark = {}
    /\ exc = NoExc
    /\ result = NoResult
    /\ entered = {}
    /\ returned = {}

\* The shapes a partition-column value of a fetched row comes in: a
\* datetime, a date, a pre-encoded int, a text in each of the three forms,
\* NULL, and the integer 0.
DeriveValues ==
    UNION {{DatetimeVal(d), DateVal(d), IntVal(Ymd(d)),
            StrVal(1, d), StrVal(2, d), StrVal(3, d)} : d \in Days}
    \cup {NoneVal, IntVal(0)}

DeriveInit ==
    /\ pc = "derive"
    /\ cfg \in {c \in TableConfigs : c.sync_mode = "full_replace" /\ c.batch_size = 0}
    /\ data \in SeqsUpTo(DeriveValues, MaxRows)
    /\ boundaries = {}
    /\ preBoundaries = {}
    /\ liveRows = {}
    /\ preLive = {}
    /\ svc = NoSvc
    /\ target_count = 0
    /\ column_kind = "int"
    /\ attempt = 1
    /\ source = AnySource
    /\ FreshCall

\* One call of _get_required_partitions (lines 218-242) on the batch.
Derive ==
    /\ pc = "derive"
    /\ pc' = "derived"
    /\ required_partitions' = GetRequiredPartitions(data, cfg)
    /\ UNCHANGED <<dbVars, histVars, data, watermark, planVars, indexVars, switchVars,
                   log, rows_inserted, exc, result, callVars>>

DeriveNext == Derive

SpecDerive == DeriveInit /\ [][DeriveNext]_vars

\* --------------------------------------- get_strategy and SimpleCopyStrategy
\* The sync modes a configuration may name: the three the code knows and
\* one it does not; the strategies likewise.
AllSyncModes == {"full_replace", "incremental", "smart_sync", "upsert"}
KnownStrategies == {"simple_copy", "staging_partition_switch"}

ConfigFields ==
    [strategy : KnownStrategies \cup {"bulk_copy"},
     sync_mode : AllSyncModes,
     incremental_column : BOOLEAN,
     incremental_type : {"identity", "date"},
     date_buffer_days : {0, 7},
     truncate_target : BOOLEAN,
     batch_size : {0, 1},
     row_limit : {0, 1}]

\* The column and its type are read by the incremental path only.
ReadsWatermark(c) ==
    \/ c.sync_mode = "incremental"
    \/ c.strategy = "simple_copy" /\ c.sync_mode = "smart_sync"

\* The configurations of a table refreshed by SimpleCopyStrategy: one of
\* each behaviour, as in TableConfigs.
SimpleConfigs ==
    {c \in ConfigFields :
        /\ c.strategy = "simple_copy"
        /\ (c.incremental_type = "identity" <=> c.date_buffer_days = 0)
        /\ ~ReadsWatermark(c) => ~c.incremental_column /\ c.incremental_type = "identity"
        /\ c.sync_mode = "upsert" => ~c.truncate_target /\ c.batch_size = 0 /\ c.row_limit = 0}

\* The configurations of a table refreshed by StagingPartitionSwitchStrategy
\* under every sync mode; truncate_target and row_limit are not read by it.
ModeConfigs ==
    {c \in ConfigFields :
        /\ c.strategy = "staging_partition_switch"
        /\ (c.incremental_type = "identity" <=> c.date_buffer_days = 0)
        /\ ~ReadsWatermark(c) => c.incremental_type = "identity"
        /\ ~c.truncate_target /\ c.batch_size = 0 /\ c.row_limit = 0}

\* A configuration that names a strategy get_strategy does not know.
UnknownStrategyConfigs ==
    {c \in ConfigFields :
        /\ c.strategy \notin KnownStrategies
        /\ c.sync_mode = "full_replace" /\ ~c.incremental_column
        /\ c.incremental_type = "identity" /\ c.date_buffer_days = 0
        /\ ~c.truncate_target /\ c.batch_size = 0 /\ c.row_limit = 0}

StrategyConfigs == SimpleConfigs \cup ModeConfigs \cup UnknownStrategyConfigs

\* The variables SimpleCopyStrategy has no use for.
stagingOnlyVars == <<boundaries, staging, holders, required_partitions, planVars,
                     indexVars, switchVars>>

\* An exception that leaves the strategy (simple copy has no handler).
PropagateRetries(e) ==
    /\ pc' = pc
    /\ exc' = e
    /\ result' = result
Propagate(e) ==
    /\ pc' = "done"
    /\ exc' = e
    /\ result' = [NoResult EXCEPT !.status = "raised", !.exc = e]

\* str() of a non-negative int.
RECURSIVE Decimal(_)
Decimal(n) ==
    IF n < 10 THEN <<DigitChars[n + 1]>>
    ELSE Decimal(n \div 10) \o <<DigitChars[(n % 10) + 1]>>

\* str(max_value) (line 101): the decimal digits of an int, the ISO form
\* of a date.
WatermarkDigits(w) == Decimal(w.n)
WatermarkText(w) == IF w.kind = "date" THEN IsoDate(CalDate(w.n)) ELSE Decimal(w.n)

\* The sync_mode of the result as _smart_sync leaves it (lines 110, 117):
\* tagged by the target count when smart sync made the call.
ReportedModeUntagged(base) == base
ReportedMode(base) ==
    IF "_smart_sync" \in entered
    THEN (IF target_count = 0 THEN "smart_sync_full" ELSE "smart_sync_incremental")
    ELSE base

\* The result dict of _full_refresh (lines 57-66) or of _incremental_refresh
\* (lines 92-102), whichever method is returning.
SimpleReturn(rows) ==
    LET full == "_full_refresh" \in entered
    IN /\ pc' = "done"
       /\ exc' = exc
       /\ result' = [status |-> "success",
                     strategy |-> "simple_copy",
                     sync_mode |-> ReportedMode(IF full THEN "full_replace" ELSE "incremental"),
                     rows_processed |-> rows,
                     incremental_from |-> IF full THEN {}
                                          ELSE {WatermarkText(w) : w \in watermark},
                     exc |-> NoExc]

\* get_strategy (lines 388-396).
GetStrategy ==
    /\ pc = "get_strategy"
    /\ IF cfg.strategy \in KnownStrategies
       THEN Continue("invoke")
       ELSE Propagate(Exc("unknown_strategy", 0))
    /\ UNCHANGED <<dbVars, histVars, fetchVars, planVars, indexVars, switchVars, log,
                   rows_inserted, callVars>>

\* The dry-run answer or the call of strategy.refresh_table()
\* (data_refresh.py lines 42-51).
InvokesRegardless(s, c) == IF c.strategy = "simple_copy" THEN "s_start" ELSE "start"
InvokeBranch(s, c) ==
    IF s.dry_run THEN "done"
    ELSE IF c.strategy = "simple_copy" THEN "s_start" ELSE "start"

\* The result of a dry run (lines 43-48).
DryRunResult(c) ==
    [status |-> "dry_run", strategy |-> c.strategy, sync_mode |-> c.sync_mode,
     exc |-> NoExc]

InvokeStrategy ==
    /\ pc = "invoke"
    /\ pc' = InvokeBranch(svc, cfg)
    /\ exc' = exc
    /\ result' = IF pc' = "done" THEN DryRunResult(cfg) ELSE result
    /\ UNCHANGED <<dbVars, histVars, fetchVars, planVars, indexVars, switchVars, log,
                   rows_inserted, callVars>>

\* SimpleCopyStrategy.refresh_table (lines 23-33).
SimpleStart ==
    /\ pc = "s_start"
    /\ CASE cfg.sync_mode = "full_replace" ->
               /\ Continue("s_truncate")
               /\ entered' = entered \cup {"_full_refresh"}
         [] cfg.sync_mode = "incremental" ->
               /\ Continue("s_get_max")
               /\ entered' = entered \cup {"_incremental_refresh"}
         [] cfg.sync_mode = "smart_sync" ->
               /\ Continue("s_count")
               /\ entered' = entered \cup {"_smart_sync"}
         [] OTHER ->
               /\ Propagate(Exc("unsupported_sync_mode", 0))
               /\ entered' = entered
    /\ UNCHANGED <<stagingOnlyVars, histVars, liveRows, log, data, watermark,
                   rows_inserted, returned>>

\* _smart_sync (lines 104-118): the count of the target decides the method.
SimpleCount ==
    /\ pc = "s_count"
    /\ \/ /\ Issue("target", "get_table_count", 0, TRUE)
          /\ target_count' = Cardinality(liveRows)
          /\ IF target_count' = 0
             THEN /\ Continue("s_truncate")
                  /\ entered' = entered \cup {"_full_refresh"}
             ELSE /\ Continue("s_get_max")
                  /\ entered' = entered \cup {"_incremental_refresh"}
       \/ /\ Issue("target", "get_table_count", 0, FALSE)
          /\ Propagate(Exc("get_table_count", 0))
          /\ UNCHANGED <<target_count, entered>>
    /\ UNCHANGED <<stagingOnlyVars, configVars, liveRows, data, watermark, rows_inserted,
                   returned>>

\* `if max_value is None: return self._full_refresh()` (lines 73-75).
IncrementalSkipsFetch(w) == IF w = {} THEN "s_bulk" ELSE "s_select_where"
IncrementalAlwaysTruncates(w) == "s_truncate"
IncrementalBranch(w) == IF w = {} THEN "s_truncate" ELSE "s_select_where"

\* except Exception of get_max_value (database.py lines 89-91): the failure
\* is logged and None is returned to _incremental_refresh.
SimpleMaxRaises(e) ==
    /\ watermark' = {}
    /\ Propagate(e)
SimpleMaxExcept(e) ==
    /\ watermark' = {}
    /\ Continue(IncrementalBranch({}))

\* _incremental_refresh up to its branch (lines 68-75) with get_max_value
\* (database.py lines 84-91).  MAX(None) of an unset column is no valid
\* query.
SimpleGetMax ==
    /\ pc = "s_get_max"
    /\ \/ /\ cfg.incremental_column
          /\ Issue("target", "get_max_value", 0, TRUE)
          /\ watermark' = {AsColumn(column_kind, w) : w \in MaxValue(liveRows)}
          /\ Continue(IncrementalBranch(watermark'))
       \/ /\ Issue("target", "get_max_value", 0, FALSE)
          /\ SimpleMaxExcept(Exc("get_max_value", 0))
    /\ entered' = IF watermark' = {} THEN entered \cup {"_full_refresh"} ELSE entered
    /\ UNCHANGED <<stagingOnlyVars, histVars, liveRows, data, rows_inserted, returned>>

\* The truncation of _full_refresh (lines 38-39).
SimpleTruncate ==
    /\ pc = "s_truncate"
    /\ IF cfg.truncate_target
       THEN \/ /\ Issue("target", "truncate", 0, TRUE)
               /\ liveRows' = {}
               /\ Continue("s_select_all")
            \/ /\ Issue("target", "truncate", 0, FALSE)
               /\ Propagate(Exc("truncate", 0))
               /\ UNCHANGED liveRows
       ELSE /\ Continue("s_select_all")
            /\ UNCHANGED <<log, liveRows>>
    /\ UNCHANGED <<stagingOnlyVars, histVars, data, watermark, rows_inserted, callVars>>

\* `if source_data:` (lines 47-52 and 82-87).
AfterSelectAlwaysLoads(d) ==
    /\ data' = d
    /\ Continue("s_bulk")
    /\ rows_inserted' = rows_inserted
AfterSelect(d) ==
    /\ data' = d
    /\ IF d # <<>>
       THEN /\ Continue("s_bulk")
            /\ rows_inserted' = rows_inserted
       ELSE /\ SimpleReturn(0)
            /\ rows_inserted' = 0

\* The source query of _full_refresh (lines 41-45): SELECT * with no WHERE,
\* cut to row_limit rows when that is set.
SimpleSelectAll ==
    /\ pc = "s_select_all"
    /\ \/ \E src \in Answers(source, column_kind, cfg.row_limit) :
             /\ Issue("source", "select_all", cfg.row_limit, TRUE)
             /\ AfterSelect(src)
       \/ /\ Issue("source", "select_all", cfg.row_limit, FALSE)
          /\ Propagate(Exc("select_all", cfg.row_limit))
          /\ UNCHANGED <<data, rows_inserted>>
    /\ UNCHANGED <<stagingOnlyVars, histVars, liveRows, watermark, callVars>>

\* The source query of _incremental_refresh (lines 77-80).
SimpleSelectWhere ==
    /\ pc = "s_select_where"
    /\ LET w == CHOOSE x \in watermark : TRUE
           where == BuildWhere(cfg, w)
       IN \/ /\ where.raises
             /\ Issue("local", "build_where", 0, FALSE)
             /\ Propagate(Exc("build_where", 0))
             /\ UNCHANGED <<data, rows_inserted>>
          \/ /\ ~where.raises
             /\ \E src \in Answers(source, column_kind, 0) :
                   /\ Issue("source", "select_where", where.bound, TRUE)
                   /\ AfterSelect(SelectSeq(src, LAMBDA v : Satisfies(v, where)))
          \/ /\ ~where.raises
             /\ Issue("source", "select_where", where.bound, FALSE)
             /\ Propagate(Exc("select_where", where.bound))
             /\ UNCHANGED <<data, rows_inserted>>
    /\ UNCHANGED <<stagingOnlyVars, histVars, liveRows, watermark, callVars>>

\* batch_size or 5000 (lines 49, 84).
SimpleBatchSize(c) == IF c.batch_size = 0 THEN DefaultSimpleBatch ELSE c.batch_size

\* target_handler.bulk_insert into the target table (lines 48-50 and 83-85;
\* database.py lines 106-129), committed batch by batch.
SimpleBulkInsert ==
    /\ pc = "s_bulk"
    /\ LET bs == SimpleBatchSize(cfg)
           nb == NumBatches(Len(data), bs)
           Loaded(k) == {NewRow(i, data[i]) : i \in 1..Min(k * bs, Len(data))}
       IN \/ /\ Issue("target", "bulk_insert", Len(data), TRUE)
             /\ liveRows' = liveRows \cup Loaded(nb)
             /\ rows_inserted' = Len(data)
             /\ SimpleReturn(Len(data))
          \/ \E k \in 0..(nb - 1) :
                /\ Issue("target", "bulk_insert", Len(data), FALSE)
                /\ liveRows' = liveRows \cup Loaded(k)
                /\ Propagate(Exc("bulk_insert", Len(data)))
                /\ UNCHANGED rows_inserted
    /\ UNCHANGED <<stagingOnlyVars, histVars, data, watermark, callVars>>

SimpleNext ==
    \/ SimpleStart
    \/ SimpleCount
    \/ SimpleGetMax
    \/ SimpleTruncate
    \/ SimpleSelectAll
    \/ SimpleSelectWhere
    \/ SimpleBulkInsert

\* One table refreshed by the strategy its configuration names.
StrategiesInit ==
    /\ pc = "get_strategy"
    /\ cfg \in StrategyConfigs
    /\ boundaries \in (IF cfg.strategy = "staging_partition_switch"
                       THEN SUBSET {Ymd(d) : d \in Days} ELSE {{}})
    /\ preBoundaries = boundaries
    /\ \E k \in 0..MaxDay : liveRows = {OldRow(d) : d \in 1..k}
    /\ preLive = liveRows
    /\ data = <<>>
    /\ \E b \in BOOLEAN : svc = [NoSvc EXCEPT !.dry_run = b]
    /\ target_count = 0
    /\ column_kind = "int"
    /\ attempt = 1
    /\ source = AnySource
    /\ FreshCall

StrategiesNext ==
    \/ GetStrategy
    \/ InvokeStrategy
    \/ SimpleNext
    \/ Next

SpecStrategies == StrategiesInit /\ [][StrategiesNext]_vars

\* ------------------------------------------------------ DataRefreshService
MaxTables == 2     \* tables of the configuration at most

\* The configurations of the tables of a batch run: one table of each sync
\* mode SimpleCopyStrategy tells apart, and one whose strategy is unknown.
ServiceConfigs ==
    {c \in SimpleConfigs \cup UnknownStrategyConfigs :
        /\ ~c.truncate_target /\ c.batch_size = 0
        /\ c.incremental_column = ReadsWatermark(c)
        /\ c.incremental_type = "identity"
        /\ c.row_limit = (IF c.sync_mode = "full_replace" /\ c.strategy = "simple_copy"
                          THEN 1 ELSE 0)}

\* The table names one run refreshes: every configured table in the order
\* of the configuration (refresh_all_tables, lines 63-68), or the one name
\* given to refresh_table, which may be no table of the configuration.
\* Tables are named by their position.
RunNames(tables) ==
    {[i \in 1..Len(tables) |-> i]} \cup {<<k>> : k \in 1..(Len(tables) + 1)}

\* The staging-switch tables of a dry run, one of each fetch.
DryRunOnlyConfigs ==
    {c \in ModeConfigs :
        /\ c.sync_mode \in SyncModes
        /\ c.incremental_column = ReadsWatermark(c)
        /\ c.incremental_type = "identity"}

\* The tables a run is configured with.  A run that is no dry run has
\* simple-copy tables, whose strategy it executes; a dry run executes no
\* strategy and has tables of both strategies.
ServiceTables(dry) ==
    IF dry THEN ServiceConfigs \cup DryRunOnlyConfigs ELSE ServiceConfigs

ServiceInit ==
    /\ \E dry \in BOOLEAN : \E tables \in SeqsUpTo(ServiceTables(dry), MaxTables) :
          \E names \in RunNames(tables) :
             /\ svc = [tables |-> tables, names |-> names, idx |-> 1,
                       results |-> <<>>, dry_run |-> dry]
             /\ pc = IF names = <<>> THEN "svc_done" ELSE "svc_next"
    /\ cfg = CHOOSE c \in UnknownStrategyConfigs : TRUE
    /\ boundaries = {}
    /\ preBoundaries = {}
    /\ liveRows = {}
    /\ preLive = {}
    /\ data = <<>>
    /\ target_count = 0
    /\ column_kind = "int"
    /\ attempt = 1
    /\ source = AnySource
    /\ FreshCall

\* The state of the strategies between two tables.
BetweenTables ==
    /\ staging' = NoStaging
    /\ holders' = <<>>
    /\ log' = <<>>
    /\ data' = <<>>
    /\ required_partitions' = <<>>
    /\ existing_partitions' = <<>>
    /\ missing_partitions' = <<>>
    /\ partitions_created' = <<>>
    /\ rows_inserted' = 0
    /\ indexes' = 0
    /\ indexesTodo' = <<>>
    /\ swIdx' = 0
    /\ partition_number' = 0
    /\ watermark' = {}
    /\ exc' = NoExc
    /\ result' = NoResult
    /\ entered' = {}
    /\ returned' = {}
    /\ target_count' = 0

\* results.append(result) and the next turn of the loop (lines 67-69).
SvcAppendRewinds(r) ==
    /\ svc' = [svc EXCEPT !.results = Append(@, r), !.idx = 1]
    /\ pc' = "svc_next"
SvcAppend(r) ==
    /\ svc' = [svc EXCEPT !.results = Append(@, r), !.idx = @ + 1]
    /\ pc' = IF svc.idx < Len(svc.names) THEN "svc_next" ELSE "svc_done"

\* except Exception of refresh_table (lines 53-60): the failure becomes a
\* result of status 'error' with the message and a timestamp.
SvcReraise(e) ==
    /\ svc' = svc
    /\ pc' = "svc_raised"
SvcExcept(e) ==
    SvcAppend([table_name |-> svc.names[svc.idx], status |-> "error",
               error |-> e, timestamp |-> TRUE])

\* refresh_table up to get_strategy (lines 37-39) with get_table_config
\* (config.py lines 79-83), for the next name of the run.  The named
\* table's target holds rows of some days.
SvcRefreshTable ==
    /\ pc = "svc_next"
    /\ LET name == svc.names[svc.idx]
       IN IF name \in 1..Len(svc.tables)
          THEN /\ cfg' = svc.tables[name]
               /\ pc' = "get_strategy"
               /\ svc' = svc
               /\ \E k \in 0..MaxDay : liveRows' = {OldRow(d) : d \in 1..k}
               /\ preLive' = liveRows'
          ELSE /\ SvcExcept(Exc("table_not_found", name))
               /\ UNCHANGED <<cfg, liveRows, preLive>>
    /\ BetweenTables
    /\ UNCHANGED <<boundaries, preBoundaries, column_kind, attempt, source>>

\* The return of refresh_table (lines 51-60) into the loop of
\* refresh_all_tables: the result of the strategy, or the 'error' result
\* made of the exception it raised.
SvcReturn ==
    /\ pc = "done"
    /\ IF result.status = "raised"
       THEN SvcExcept(result.exc)
       ELSE SvcAppend([table_name |-> svc.names[svc.idx], status |-> result.status,
                       error |-> NoExc, timestamp |-> FALSE])
    /\ BetweenTables
    /\ liveRows' = {}
    /\ preLive' = {}
    /\ UNCHANGED <<cfg, boundaries, preBoundaries, column_kind, attempt, source>>

ServiceNext ==
    \/ SvcRefreshTable
    \/ GetStrategy
    \/ InvokeStrategy
    \/ SimpleNext
    \/ SvcReturn

SpecService == ServiceInit /\ [][ServiceNext]_vars

\* ------------------------------ the incremental predicate on its own
\* incremental_type is a str defaulting to None (config.py line 23):
\* "none" stands for the unspecified type.
IncrementalTypes == {"identity", "date", "datetime", "none"}
BufferDays == {0, 1, 7}

WhereConfigs ==
    [strategy : {"simple_copy"},
     sync_mode : {"incremental"},
     incremental_column : {TRUE},
     incremental_type : IncrementalTypes,
     date_buffer_days : BufferDays,
     truncate_target : {FALSE},
     batch_size : {0},
     row_limit : {0}]

\* The values MAX(column) answers with: pre-encoded ints, dates, datetimes.
WhereWatermarks ==
    UNION {{IntVal(Ymd(d)), DateVal(d), DatetimeVal(d)} : d \in Days}

WhereInit ==
    /\ pc = "build_where"
    /\ cfg \in WhereConfigs
    /\ \E w \in WhereWatermarks : watermark = {w}
    /\ data = <<>>
    /\ boundaries = {}
    /\ preBoundaries = {}
    /\ liveRows = {}
    /\ preLive = {}
    /\ svc = NoSvc
    /\ target_count = 0
    /\ column_kind = "int"
    /\ attempt = 1
    /\ source = AnySource
    /\ staging = NoStaging
    /\ holders = <<>>
    /\ log = <<>>
    /\ required_partitions = <<>>
    /\ existing_partitions = <<>>
    /\ missing_partitions = <<>>
    /\ partitions_created = <<>>
    /\ rows_inserted = 0
    /\ indexes = 0
    /\ indexesTodo = <<>>
    /\ swIdx = 0
    /\ partition_number = 0
    /\ exc = NoExc
    /\ result = NoResult
    /\ entered = {}
    /\ returned = {}

\* One call of _build_incremental_where_clause (lines 120-138); result
\* holds the clause it returns.
BuildClause ==
    /\ pc = "build_where"
    /\ pc' = "clause_built"
    /\ LET where == BuildWhere(cfg, CHOOSE w \in watermark : TRUE)
       IN /\ result' = where
          /\ Issue("local", "build_where", where.bound, ~where.raises)
    /\ UNCHANGED <<dbVars, histVars, fetchVars, planVars, indexVars, switchVars,
                   rows_inserted, exc, callVars>>

WhereNext == BuildClause
SpecWhere == WhereInit /\ [][WhereNext]_vars

\* ------------------------------- SimpleCopyStrategy over both column kinds
\* The configurations of SimpleConfigs, and their buffered ones with a
\* buffer of one day as well.
SimpleColumnConfigs ==
    SimpleConfigs \cup {[c EXCEPT !.date_buffer_days = 1] :
                          c \in {x \in SimpleConfigs : x.date_buffer_days > 0}}

\* One call of SimpleCopyStrategy.refresh_table on a table whose
\* incremental column holds pre-encoded ints or dates.
SimpleInit ==
    /\ pc = "s_start"
    /\ cfg \in SimpleColumnConfigs
    /\ column_kind \in {"int", "date"}
    /\ boundaries = {}
    /\ preBoundaries = {}
    /\ \E k \in 0..MaxDay : liveRows = {OldRow(d) : d \in 1..k}
    /\ preLive = liveRows
    /\ data = <<>>
    /\ svc = NoSvc
    /\ target_count = 0
    /\ attempt = 1
    /\ source = AnySource
    /\ FreshCall

SpecSimple == SimpleInit /\ [][SimpleNext]_vars

\* ------------------------------------ a failed invocation and its retry
\* One staging-switch invocation and, when it raised, a second invocation
\* for the same table against the database as the first one left it.
RetryConfigs ==
    {c \in TableConfigs :
        /\ c.incremental_column /\ c.batch_size = 0
        /\ c.incremental_type = "identity"}

RetryInit ==
    /\ Init
    /\ cfg \in RetryConfigs
    /\ boundaries = {}

\* The caller's next refresh_table for the table (data_refresh.py lines
\* 37-51): a fresh strategy object, the database unchanged.
Retry ==
    /\ pc = "done"
    /\ result.status = "raised"
    /\ attempt = 1
    /\ attempt' = 2
    /\ pc' = "start"
    /\ preBoundaries' = boundaries
    /\ preLive' = liveRows
    /\ log' = <<>>
    /\ data' = <<>>
    /\ required_partitions' = <<>>
    /\ existing_partitions' = <<>>
    /\ missing_partitions' = <<>>
    /\ partitions_created' = <<>>
    /\ rows_inserted' = 0
    /\ indexes' = 0
    /\ indexesTodo' = <<>>
    /\ swIdx' = 0
    /\ partition_number' = 0
    /\ watermark' = {}
    /\ exc' = NoExc
    /\ result' = NoResult
    /\ entered' = {}
    /\ returned' = {}
    /\ UNCHANGED <<dbVars, cfg, svc, target_count, column_kind, source>>

RetryNext ==
    \/ Next
    \/ Retry

SpecRetry == RetryInit /\ [][RetryNext]_vars

\* ------------------------------- two refreshes over an unchanged source
\* Two calls of SimpleCopyStrategy.refresh_table for one table, the second
\* right after the first returned, while the source table keeps its rows.
TwiceInit ==
    /\ pc = "s_start"
    /\ cfg \in SimpleColumnConfigs
    /\ column_kind \in {"int", "date"}
    /\ boundaries = {}
    /\ preBoundaries = {}
    /\ \E k \in 0..MaxDay : liveRows = {OldRow(d) : d \in 1..k}
    /\ preLive = liveRows
    /\ data = <<>>
    /\ svc = NoSvc
    /\ target_count = 0
    /\ attempt = 1
    /\ \E t \in SourceSeqs(column_kind) : source = FixedSource(t)
    /\ FreshCall

\* The caller's second refresh_table for the table (data_refresh.py lines
\* 37-51) after the first returned its result: a fresh strategy object,
\* the target as the first call left it.
Again ==
    /\ pc = "done"
    /\ result.status = "success"
    /\ attempt = 1
    /\ attempt' = 2
    /\ pc' = "s_start"
    /\ svc' = [svc EXCEPT !.results = Append(@, result)]
    /\ preLive' = liveRows
    /\ log' = <<>>
    /\ data' = <<>>
    /\ rows_inserted' = 0
    /\ watermark' = {}
    /\ exc' = NoExc
    /\ result' = NoResult
    /\ entered' = {}
    /\ returned' = {}
    /\ UNCHANGED <<liveRows, stagingOnlyVars, cfg, preBoundaries, target_count,
                   column_kind, source>>

TwiceNext ==
    \/ SimpleNext
    \/ Again

SpecTwice == TwiceInit /\ [][TwiceNext]_vars

\* ---------------------------- two invocations for one table at one time
\* Two calls of StagingPartitionSwitchStrategy.refresh_table for the same
\* table in flight at once: the web application serves each request to
\* /api/refresh with the one DataRefreshService (web/app.py lines 19-27,
\* 64-82), which builds a strategy object per call (data_refresh.py lines
\* 37-51).  Each invocation has its own locals, held here per invocation;
\* the target database, with the staging table <table>_staging (line 146)
\* and the holder tables <table>_temp_<date> (line 340), is one.  Every
\* statement commits by itself (database.py lines 77-82), so the statements
\* of the two interleave freely.  The table is configured with an identity
\* incremental column and the default batch size, and carries no index.
Invocations == 1..2
Tag(t) == IF t = 1 THEN "first" ELSE "second"

ParConfigs ==
    {c \in TableConfigs :
        /\ c.incremental_column /\ c.batch_size = 0
        /\ c.incremental_type = "identity"}

\* The rows invocation t inserts: row i of its data.
ParRow(t, i, v) == [src |-> Tag(t), n |-> i, key |-> PartitionKey(v)]

ParNoStaging == [exists |-> FALSE, rows |-> {}, indexes |-> {}, owner |-> "none"]

ParInit ==
    /\ cfg \in ParConfigs
    /\ boundaries \in SUBSET {Ymd(d) : d \in Days}
    /\ preBoundaries = boundaries
    /\ \E k \in 0..1 : liveRows = {OldRow(d) : d \in 1..k}
    /\ preLive = liveRows
    /\ staging = ParNoStaging
    /\ holders = <<>>
    /\ pc = [t \in Invocations |-> "start"]
    /\ log = [t \in Invocations |-> <<>>]
    /\ data = [t \in Invocations |-> <<>>]
    /\ required_partitions = [t \in Invocations |-> <<>>]
    /\ existing_partitions = [t \in Invocations |-> <<>>]
    /\ missing_partitions = [t \in Invocations |-> <<>>]
    /\ partitions_created = [t \in Invocations |-> <<>>]
    /\ rows_inserted = [t \in Invocations |-> 0]
    /\ swIdx = [t \in Invocations |-> 0]
    /\ partition_number = [t \in Invocations |-> 0]
    /\ watermark = [t \in Invocations |-> {}]
    /\ exc = [t \in Invocations |-> NoExc]
    /\ result = [t \in Invocations |-> NoResult]
    /\ indexes = 0
    /\ indexesTodo = <<>>
    /\ entered = {}
    /\ returned = {}
    /\ svc = NoSvc
    /\ target_count = 0
    /\ column_kind = "int"
    /\ attempt = 1
    /\ source = AnySource

parPinned == <<histVars, indexVars, callVars>>

\* The statements that create, write to or remove the table under the
\* staging name.
ParStagingOps == {"create_staging", "bulk_insert", "switch_in", "drop_staging"}

\* A statement of invocation t and its outcome.  Kept of it, when it
\* succeeded on the staging table: the invocation whose table stood under
\* the shared name when it ran, and the rows it moved into the live table.
ParIssue(t, op, ok, rows) ==
    log' = IF ok /\ op \in ParStagingOps
           THEN [log EXCEPT ![t] = Append(@, [op |-> op, ok |-> ok,
                                              owner |-> staging.owner, rows |-> rows])]
           ELSE log
ParContinue(t, next) ==
    /\ pc' = [pc EXCEPT ![t] = next]
    /\ exc' = exc
    /\ result' = result

\* except Exception as e (lines 188-191): cleanup, then re-raise.
ParRaise(t, e) ==
    /\ pc' = [pc EXCEPT ![t] = "cleanup"]
    /\ exc' = [exc EXCEPT ![t] = e]
    /\ result' = result

\* refresh_table entry (lines 142-153).
ParStart(t) ==
    /\ pc[t] = "start"
    /\ ParContinue(t, IF cfg.sync_mode = "incremental" THEN "get_max_value"
                      ELSE "full_query")
    /\ UNCHANGED <<dbVars, parPinned, fetchVars, planVars, switchVars, log,
                   rows_inserted>>

\* target_handler.get_max_value (line 203; database.py lines 84-91).
ParGetMaxValue(t) ==
    /\ pc[t] = "get_max_value"
    /\ \E ok \in BOOLEAN :
          /\ ParIssue(t, "get_max_value", ok, {})
          /\ watermark' = [watermark EXCEPT ![t] = IF ok THEN MaxValue(liveRows) ELSE {}]
    /\ ParContinue(t, IF watermark'[t] = {} THEN "full_query" ELSE "incremental_query")
    /\ UNCHANGED <<dbVars, parPinned, data, required_partitions, planVars,
                   switchVars, rows_inserted>>

\* `if data:` of refresh_table (lines 155-165) up to the call of
\* _ensure_partitions_exist, whose empty-list return (lines 266-267) is
\* taken here.
ParAfterFetch(t, d) ==
    /\ data' = [data EXCEPT ![t] = d]
    /\ required_partitions' = [required_partitions EXCEPT ![t] = GetRequiredPartitions(d, cfg)]
    /\ ParContinue(t, IF d = <<>> THEN "cleanup"
                      ELSE IF required_partitions'[t] = <<>> THEN "create_staging"
                      ELSE "get_existing_partitions")

\* _get_full_data (lines 214-216).
ParGetFullData(t) ==
    /\ pc[t] = "full_query"
    /\ \/ \E src \in DataSeqs :
             /\ ParIssue(t, "select_all", TRUE, {})
             /\ ParAfterFetch(t, src)
       \/ /\ ParIssue(t, "select_all", FALSE, {})
          /\ ParRaise(t, Exc("select_all", 0))
          /\ UNCHANGED <<data, required_partitions>>
    /\ UNCHANGED <<dbVars, parPinned, watermark, planVars, switchVars, rows_inserted>>

\* _get_incremental_data with a watermark (lines 208-212); the clause of
\* an identity column never raises.
ParGetIncrementalData(t) ==
    /\ pc[t] = "incremental_query"
    /\ LET w == CHOOSE x \in watermark[t] : TRUE
           where == BuildWhere(cfg, w)
       IN \/ \E src \in DataSeqs :
                /\ ParIssue(t, "select_where", TRUE, {})
                /\ ParAfterFetch(t, SelectSeq(src, LAMBDA v : Satisfies(v, where)))
          \/ /\ ParIssue(t, "select_where", FALSE, {})
             /\ ParRaise(t, Exc("select_where", where.bound))
             /\ UNCHANGED <<data, required_partitions>>
    /\ UNCHANGED <<dbVars, parPinned, watermark, planVars, switchVars, rows_inserted>>

\* _get_existing_partitions (lines 244-263) and line 270: a failing lookup
\* is logged and answered with the empty list.
ParGetExistingPartitions(t) ==
    /\ pc[t] = "get_existing_partitions"
    /\ \E ok \in BOOLEAN :
          /\ ParIssue(t, "existing_partitions", ok, {})
          /\ existing_partitions' = [existing_partitions EXCEPT ![t] =
                                        IF ok THEN SortedSeq(boundaries) ELSE <<>>]
    /\ missing_partitions' = [missing_partitions EXCEPT ![t] =
           MissingPartitions(required_partitions[t], existing_partitions'[t])]
    /\ ParContinue(t, IF missing_partitions'[t] = <<>> THEN "create_staging"
                      ELSE "create_partition")
    /\ UNCHANGED <<dbVars, parPinned, fetchVars, partitions_created, switchVars,
                   rows_inserted>>

\* One turn of the loop of _ensure_partitions_exist (lines 274-281) with
\* _create_partition (lines 285-294).  SPLIT RANGE on a value that is a
\* boundary already is an error of the database.
ParCreatePartition(t) ==
    /\ pc[t] = "create_partition"
    /\ LET p == Head(missing_partitions[t])
       IN \/ /\ p \notin boundaries
             /\ ParIssue(t, "split_range", TRUE, {})
             /\ boundaries' = boundaries \cup {p}
             /\ partitions_created' = [partitions_created EXCEPT ![t] = Append(@, p)]
             /\ missing_partitions' = [missing_partitions EXCEPT ![t] = Tail(@)]
             /\ ParContinue(t, IF missing_partitions'[t] = <<>> THEN "create_staging"
                               ELSE "create_partition")
          \/ /\ ParIssue(t, "split_range", FALSE, {})
             /\ ParRaise(t, Exc("split_range", p))
             /\ UNCHANGED <<boundaries, partitions_created, missing_partitions>>
    /\ UNCHANGED <<liveRows, staging, holders, parPinned, fetchVars,
                   existing_partitions, switchVars, rows_inserted>>

\* _create_staging_table (lines 193-200): SELECT ... INTO an existing table
\* is an error of the database.
ParCreateStagingTable(t) ==
    /\ pc[t] = "create_staging"
    /\ \/ /\ ~staging.exists
          /\ ParIssue(t, "create_staging", TRUE, {})
          /\ staging' = [exists |-> TRUE, rows |-> {}, indexes |-> {}, owner |-> Tag(t)]
          /\ ParContinue(t, "bulk_insert")
       \/ /\ ParIssue(t, "create_staging", FALSE, {})
          /\ ParRaise(t, Exc("create_staging", 0))
          /\ UNCHANGED staging
    /\ UNCHANGED <<boundaries, liveRows, holders, parPinned, fetchVars, planVars,
                   switchVars, rows_inserted>>

\* target_handler.bulk_insert into the staging table (lines 161-167;
\* database.py lines 106-129), one batch of the default size; an INSERT
\* into a table that does not exist is an error of the database.
ParBulkInsert(t) ==
    /\ pc[t] = "bulk_insert"
    /\ \/ /\ staging.exists
          /\ ParIssue(t, "bulk_insert", TRUE, {})
          /\ staging' = [staging EXCEPT !.rows =
                            @ \cup {ParRow(t, i, data[t][i]) : i \in 1..Len(data[t])}]
          /\ rows_inserted' = [rows_inserted EXCEPT ![t] = Len(data[t])]
          /\ ParContinue(t, AfterLoad(rows_inserted'[t]))
       \/ /\ ParIssue(t, "bulk_insert", FALSE, {})
          /\ ParRaise(t, Exc("bulk_insert", Len(data[t])))
          /\ UNCHANGED <<staging, rows_inserted>>
    /\ UNCHANGED <<boundaries, liveRows, holders, parPinned, fetchVars, planVars,
                   switchVars>>

\* _apply_indexes_and_constraints (lines 296-329) for a live table without
\* indexes: the query for them (lines 313-314), whose failure is logged.
ParApplyIndexes(t) ==
    /\ pc[t] = "apply_indexes"
    /\ \E ok \in BOOLEAN : ParIssue(t, "indexes_query", ok, {})
    /\ ParContinue(t, "switch_partitions")
    /\ UNCHANGED <<dbVars, parPinned, fetchVars, planVars, switchVars, rows_inserted>>

\* _switch_partitions entry (lines 331-336).
ParSwitchPartitions(t) ==
    /\ pc[t] = "switch_partitions"
    /\ IF required_partitions[t] = <<>>
       THEN ParContinue(t, "cleanup") /\ swIdx' = swIdx
       ELSE ParContinue(t, "partition_number") /\ swIdx' = [swIdx EXCEPT ![t] = 1]
    /\ UNCHANGED <<dbVars, parPinned, fetchVars, planVars, partition_number, log,
                   rows_inserted>>

\* _get_partition_number (lines 365-377).
ParGetPartitionNumber(t) ==
    /\ pc[t] = "partition_number"
    /\ LET d == required_partitions[t][swIdx[t]]
       IN \/ /\ ParIssue(t, "partition_number", TRUE, {})
             /\ partition_number' = [partition_number EXCEPT ![t] = PartNum(d, boundaries)]
             /\ ParContinue(t, SwitchNext("partition_number"))
          \/ /\ ParIssue(t, "partition_number", FALSE, {})
             /\ ParRaise(t, Exc("partition_number", d))
             /\ UNCHANGED partition_number
    /\ UNCHANGED <<dbVars, parPinned, fetchVars, planVars, swIdx, rows_inserted>>

\* SELECT TOP 0 * INTO <table>_temp_<date> (line 354): an error of the
\* database when that table exists.
ParCreateHolder(t) ==
    /\ pc[t] = "create_holder"
    /\ LET d == required_partitions[t][swIdx[t]]
       IN \/ /\ d \notin DOMAIN holders
             /\ ParIssue(t, "create_holder", TRUE, {})
             /\ holders' = [x \in DOMAIN holders \cup {d} |->
                               IF x = d THEN {} ELSE holders[x]]
             /\ ParContinue(t, SwitchNext("create_holder"))
          \/ /\ ParIssue(t, "create_holder", FALSE, {})
             /\ ParRaise(t, Exc("create_holder", d))
             /\ UNCHANGED holders
    /\ UNCHANGED <<boundaries, liveRows, staging, parPinned, fetchVars, planVars,
                   switchVars, rows_inserted>>

\* ALTER TABLE <table> SWITCH PARTITION n TO <holder> (lines 342-345, 355):
\* an error of the database when the holder table does not exist.
ParSwitchOut(t) ==
    /\ pc[t] = "switch_out"
    /\ LET d == required_partitions[t][swIdx[t]]
           moved == {r \in liveRows : PartNum(r.key, boundaries) = partition_number[t]}
       IN \/ /\ d \in DOMAIN holders
             /\ ParIssue(t, "switch_out", TRUE, {})
             /\ liveRows' = liveRows \ moved
             /\ holders' = [holders EXCEPT ![d] = @ \cup moved]
             /\ ParContinue(t, SwitchNext("switch_out"))
          \/ /\ ParIssue(t, "switch_out", FALSE, {})
             /\ ParRaise(t, Exc("switch_out", d))
             /\ UNCHANGED <<liveRows, holders>>
    /\ UNCHANGED <<boundaries, staging, parPinned, fetchVars, planVars, switchVars,
                   rows_inserted>>

\* ALTER TABLE <staging> SWITCH PARTITION n TO <table> PARTITION n (lines
\* 347-350, 356): an error of the database when the staging table does not
\* exist.
ParSwitchIn(t) ==
    /\ pc[t] = "switch_in"
    /\ LET d == required_partitions[t][swIdx[t]]
           moved == {r \in staging.rows : PartNum(r.key, boundaries) = partition_number[t]}
       IN \/ /\ staging.exists
             /\ ParIssue(t, "switch_in", TRUE, moved)
             /\ liveRows' = liveRows \cup moved
             /\ staging' = [staging EXCEPT !.rows = @ \ moved]
             /\ ParContinue(t, SwitchNext("switch_in"))
          \/ /\ ParIssue(t, "switch_in", FALSE, {})
             /\ ParRaise(t, Exc("switch_in", d))
             /\ UNCHANGED <<liveRows, staging>>
    /\ UNCHANGED <<boundaries, holders, parPinned, fetchVars, planVars, switchVars,
                   rows_inserted>>

\* DROP TABLE IF EXISTS <holder> (lines 352, 357) and the next turn of the
\* loop (line 338).
ParDropHolder(t) ==
    /\ pc[t] = "drop_holder"
    /\ LET d == required_partitions[t][swIdx[t]]
       IN \/ /\ ParIssue(t, "drop_holder", TRUE, {})
             /\ holders' = [x \in DOMAIN holders \ {d} |-> holders[x]]
             /\ IF swIdx[t] < Len(required_partitions[t])
                THEN /\ ParContinue(t, "partition_number")
                     /\ swIdx' = [swIdx EXCEPT ![t] = @ + 1]
                ELSE /\ ParContinue(t, "cleanup")
                     /\ swIdx' = swIdx
          \/ /\ ParIssue(t, "drop_holder", FALSE, {})
             /\ ParRaise(t, Exc("drop_holder", d))
             /\ UNCHANGED <<holders, swIdx>>
    /\ UNCHANGED <<boundaries, liveRows, staging, parPinned, fetchVars, planVars,
                   partition_number, rows_inserted>>

\* The outcome of refresh_table: the result of lines 176-186, or the
\* exception re-raised by line 191.
ParFinish(t) ==
    /\ pc' = [pc EXCEPT ![t] = "done"]
    /\ exc' = exc
    /\ result' = [result EXCEPT ![t] =
                     IF exc[t] = NoExc
                     THEN [status |-> "success", strategy |-> "staging_partition_switch",
                           sync_mode |-> cfg.sync_mode,
                           rows_processed |-> rows_inserted[t],
                           partitions_created |-> partitions_created[t],
                           exc |-> NoExc]
                     ELSE [NoResult EXCEPT !.status = "raised", !.exc = exc[t]]]

\* _cleanup_staging (lines 378-385), called from line 171 or from line
\* 189: DROP TABLE IF EXISTS <table>_staging, whose failure is logged.
ParCleanupStaging(t) ==
    /\ pc[t] = "cleanup"
    /\ \/ /\ ParIssue(t, "drop_staging", TRUE, {})
          /\ staging' = ParNoStaging
       \/ /\ ParIssue(t, "drop_staging", FALSE, {})
          /\ UNCHANGED staging
    /\ ParFinish(t)
    /\ UNCHANGED <<boundaries, liveRows, holders, parPinned, fetchVars, planVars,
                   switchVars, rows_inserted>>

ParNext ==
    \E t \in Invocations :
        \/ ParStart(t)
        \/ ParGetMaxValue(t)
        \/ ParGetFullData(t)
        \/ ParGetIncrementalData(t)
        \/ ParGetExistingPartitions(t)
        \/ ParCreatePartition(t)
        \/ ParCreateStagingTable(t)
        \/ ParBulkInsert(t)
        \/ ParApplyIndexes(t)
        \/ ParSwitchPartitions(t)
        \/ ParGetPartitionNumber(t)
        \/ ParCreateHolder(t)
        \/ ParSwitchOut(t)
        \/ ParSwitchIn(t)
        \/ ParDropHolder(t)
        \/ ParCleanupStaging(t)

SpecConcurrent == ParInit /\ [][ParNext]_vars

\* ------------------------------------------- one connection per operation
\* One operation of DatabaseHandler inside `with get_connection() as conn`
\* (database.py lines 36-50, 67-129): the connection is opened, the
\* operation's driver calls run at the yield, and the except and finally
\* clauses of the context manager follow.  Every driver call may raise.
\* `data` holds the driver calls still to run, `entered` the operation,
\* `rows_inserted` the number of batches of a bulk_insert, and `log` the
\* driver calls made.
HandlerOps == {"execute_query", "execute_non_query", "bulk_insert"}

\* The driver calls of an operation in their order (lines 69-73, 79-81,
\* 116-125, with one executemany and one commit per batch).
RECURSIVE Batches(_)
Batches(n) == IF n = 0 THEN <<>> ELSE <<"executemany", "commit">> \o Batches(n - 1)
BodyCalls(op, n) ==
    CASE op = "execute_query" -> <<"cursor", "execute", "fetchall">>
      [] op = "execute_non_query" -> <<"cursor", "execute", "commit">>
      [] op = "bulk_insert" -> <<"cursor">> \o Batches(n)

\* `conn` of get_connection: set once pyodbc.connect has returned.
Conn == \E i \in 1..Len(log) : log[i].op = "connect" /\ log[i].ok

ConnectionInit ==
    /\ pc = "c_call"
    /\ \E op \in HandlerOps :
          \E n \in (IF op = "bulk_insert" THEN 0..MaxRows ELSE {1}) :
             /\ entered = {op}
             /\ rows_inserted = n
             /\ data = BodyCalls(op, n)
    /\ cfg = CHOOSE c \in UnknownStrategyConfigs : TRUE
    /\ boundaries = {}
    /\ preBoundaries = {}
    /\ liveRows = {}
    /\ preLive = {}
    /\ svc = NoSvc
    /\ target_count = 0
    /\ column_kind = "int"
    /\ attempt = 1
    /\ source = AnySource
    /\ staging = NoStaging
    /\ holders = <<>>
    /\ log = <<>>
    /\ required_partitions = <<>>
    /\ existing_partitions = <<>>
    /\ missing_partitions = <<>>
    /\ partitions_created = <<>>
    /\ indexes = 0
    /\ indexesTodo = <<>>
    /\ swIdx = 0
    /\ partition_number = 0
    /\ watermark = {}
    /\ exc = NoExc
    /\ result = NoResult
    /\ returned = {}

connVars == <<dbVars, histVars, required_partitions, watermark, planVars, indexVars,
              switchVars, rows_inserted, callVars>>

\* The operation up to its with statement; bulk_insert returns 0 for no
\* data before it (lines 107-108).
CallOperation ==
    /\ pc = "c_call"
    /\ IF data = <<>>
       THEN /\ pc' = "done"
            /\ result' = [NoResult EXCEPT !.status = "returned"]
       ELSE /\ pc' = "c_connect"
            /\ result' = result
    /\ UNCHANGED <<connVars, data, log, exc>>

\* conn = pyodbc.connect(...) (lines 38-40).
Connect ==
    /\ pc = "c_connect"
    /\ \/ /\ Issue("conn", "connect", 0, TRUE)
          /\ pc' = "c_timeout"
          /\ exc' = exc
       \/ /\ Issue("conn", "connect", 0, FALSE)
          /\ pc' = "c_except"
          /\ exc' = Exc("connect", 0)
    /\ UNCHANGED <<connVars, data, result>>

\* conn.timeout = command_timeout, then yield conn (lines 41-42).
SetTimeout ==
    /\ pc = "c_timeout"
    /\ \/ /\ Issue("conn", "timeout", 0, TRUE)
          /\ pc' = "c_body"
          /\ exc' = exc
       \/ /\ Issue("conn", "timeout", 0, FALSE)
          /\ pc' = "c_except"
          /\ exc' = Exc("timeout", 0)
    /\ UNCHANGED <<connVars, data, result>>

\* The next driver call of the operation inside the with block; an
\* exception is thrown into the generator at its yield, and the end of the
\* block resumes it after the yield.
BodyCall ==
    /\ pc = "c_body"
    /\ LET call == Head(data)
       IN \/ /\ Issue("conn", call, Len(data), TRUE)
             /\ data' = Tail(data)
             /\ pc' = IF data' = <<>> THEN "c_finally" ELSE "c_body"
             /\ exc' = exc
          \/ /\ Issue("conn", call, Len(data), FALSE)
             /\ data' = data
             /\ pc' = "c_except"
             /\ exc' = Exc(call, Len(data))
    /\ UNCHANGED <<connVars, result>>

\* `if conn:` of the except clause (lines 45-46).
RollsBack(conn) == conn

\* except Exception (lines 43-47): log, roll back an open connection,
\* re-raise.  An exception of rollback() takes the place of the one being
\* handled.
ConnectionExcept ==
    /\ pc = "c_except"
    /\ IF RollsBack(Conn)
       THEN \/ /\ Issue("conn", "rollback", 0, TRUE)
               /\ exc' = exc
            \/ /\ Issue("conn", "rollback", 0, FALSE)
               /\ exc' = Exc("rollback", 0)
       ELSE /\ log' = log
            /\ exc' = exc
    /\ pc' = "c_finally"
    /\ UNCHANGED <<connVars, data, result>>

\* `if conn:` of the finally clause (lines 49-50).
ClosesUnlessRaised(conn, e) == conn /\ e = NoExc
Closes(conn, e) == conn

\* finally (lines 48-50): close an open connection; then the operation
\* returns, or the exception leaves it.
ConnectionFinally ==
    /\ pc = "c_finally"
    /\ IF Closes(Conn, exc)
       THEN \/ /\ Issue("conn", "close", 0, TRUE)
               /\ exc' = exc
            \/ /\ Issue("conn", "close", 0, FALSE)
               /\ exc' = Exc("close", 0)
       ELSE /\ log' = log
            /\ exc' = exc
    /\ pc' = "done"
    /\ result' = IF exc' = NoExc THEN [NoResult EXCEPT !.status = "returned"]
                 ELSE [NoResult EXCEPT !.status = "raised", !.exc = exc']
    /\ UNCHANGED <<connVars, data>>

ConnectionNext ==
    \/ CallOperation
    \/ Connect
    \/ SetTimeout
    \/ BodyCall
    \/ ConnectionExcept
    \/ ConnectionFinally

SpecConnection == ConnectionInit /\ [][ConnectionNext]_vars

\* ------------------------------------------------------------ the claims
LogIdx == 1..Len(log)
Issued(op) == {i \in LogIdx : log[i].op = op}
Failed(ops) == {i \in LogIdx : log[i].op \in ops /\ ~log[i].ok}
First(I) == CHOOSE i \in I : \A j \in I : i <= j

\* The operations whose failure the code catches and logs.
SwallowedOps == {"get_max_value", "existing_partitions", "indexes_query",
                 "create_index", "drop_staging"}
IndexOps == {"indexes_query", "create_index"}
SwitchOps == {"partition_number", "partition_number_result", "create_holder",
              "switch_out", "switch_in", "drop_holder"}
SwitchOrder == <<"partition_number", "create_holder", "switch_out", "switch_in",
                 "drop_holder">>
FatalIdx == {i \in LogIdx : ~log[i].ok /\ log[i].op \notin SwallowedOps}
SwitchIdx == {i \in LogIdx : log[i].op \in SwitchOps}

\* C1: the DROP of the staging table is issued exactly once per invocation,
\* whichever step succeeded or raised: never twice, and once by the time
\* the invocation has returned or raised.
C1_StagingDropIssuedOnce ==
    /\ Cardinality(Issued("drop_staging")) <= 1
    /\ pc = "done" => Cardinality(Issued("drop_staging")) = 1

\* C1 witness: an invocation that raised out of a partition switch-in and
\* issued its one drop.
C1_Witness ==
    /\ pc = "done"
    /\ result.status = "raised"
    /\ result.exc.op = "switch_in"
    /\ Cardinality(Issued("drop_staging")) = 1

\* C2: when the staging drop itself fails, the outcome is what it would
\* have been: 'success' when no step raised, and otherwise the exception
\* of the step that raised first, never the exception of the drop.
C2_DropFailureKeepsOutcome ==
    (pc = "done" /\ Failed({"drop_staging"}) # {}) =>
        IF FatalIdx = {}
        THEN /\ result.status = "success"
             /\ result.exc = NoExc
        ELSE /\ result.status = "raised"
             /\ result.exc = Exc(log[First(FatalIdx)].op, log[First(FatalIdx)].arg)

\* C2 witness: a bulk load raised, the drop that followed failed too, and
\* the invocation raised.
C2_Witness ==
    /\ pc = "done"
    /\ Failed({"drop_staging"}) # {}
    /\ Failed({"bulk_insert"}) # {}
    /\ result.status = "raised"

RowsIn(rows, n) == {r \in rows : PartNum(r.key, boundaries) = n}
FetchedRows == {NewRow(i, data[i]) : i \in 1..Len(data)}

\* C3 (as claimed): after a refresh that failed at any step, every partition
\* of the live table holds exactly its pre-refresh rows or exactly the
\* newly staged rows of that partition.
C3_FailureLeavesLivePartitionsWhole ==
    (pc = "done" /\ result.status = "raised") =>
        \A n \in 1..(Cardinality(boundaries) + 1) :
            \/ RowsIn(liveRows, n) = RowsIn(preLive, n)
            \/ RowsIn(liveRows, n) = RowsIn(FetchedRows, n)

\* C4 (as claimed): after an invocation whose DROP statements all succeeded,
\* neither the staging table nor any holder table exists.
C4_NoArtifactLeft ==
    (pc = "done" /\ Failed({"drop_staging", "drop_holder"}) = {}) =>
        /\ ~staging.exists
        /\ DOMAIN holders = {}

\* C5: partitions are switched one at a time in the order of the required
\* list; after the first switch operation that fails no further switch
\* operation is issued for any partition, and that failure is the
\* exception the invocation raises.
C5_SwitchAbortsOnFirstFailure ==
    LET sw == SelectSeq(log, LAMBDA e : e.op \in SwitchOps)
        Pos(d) == CHOOSE k \in 1..Len(required_partitions) : required_partitions[k] = d
    IN /\ \A k \in 1..Len(sw) : sw[k].arg \in ToSet(required_partitions)
       /\ sw # <<>> => sw[1].arg = required_partitions[1]
       /\ \A k \in 1..(Len(sw) - 1) :
             /\ sw[k].ok
             /\ \/ sw[k + 1].arg = sw[k].arg
                \/ /\ sw[k].op = "drop_holder"
                   /\ Pos(sw[k + 1].arg) = Pos(sw[k].arg) + 1
       /\ (pc = "done" /\ sw # <<>> /\ ~sw[Len(sw)].ok) =>
             /\ result.status = "raised"
             /\ result.exc = Exc(sw[Len(sw)].op, sw[Len(sw)].arg)

\* C5 witness: the first partition was switched, the second one failed at
\* its switch-out, and the invocation raised.
C5_Witness ==
    /\ pc = "done"
    /\ Len(required_partitions) = 2
    /\ Entry("target", "drop_holder", required_partitions[1], TRUE) \in ToSet(log)
    /\ Entry("target", "switch_out", required_partitions[2], FALSE) \in ToSet(log)
    /\ result.status = "raised"

SwitchLog(d) ==
    SelectSeq(log, LAMBDA e : e.h = "target" /\ e.op \in SwitchOps /\ e.arg = d)

\* C6: for each partition the target operations are, in this order, the
\* partition-number query, the holder creation, the switch-out, the
\* switch-in and the holder drop, each issued only after the one before
\* it succeeded.
C6_SwitchStepsInOrder ==
    \A d \in ToSet(required_partitions) :
        LET s == SwitchLog(d)
        IN /\ Len(s) <= Len(SwitchOrder)
           /\ \A k \in 1..Len(s) :
                 /\ s[k].op = SwitchOrder[k]
                 /\ k < Len(s) => s[k].ok

\* C6 witness: two partitions were switched completely.
C6_Witness ==
    /\ pc = "done"
    /\ result.status = "success"
    /\ Len(required_partitions) = 2
    /\ \A k \in 1..2 : Len(SwitchLog(required_partitions[k])) = 5

\* C7: a failure while reading the live table's indexes or creating an
\* index on staging is never the exception of the invocation, and the
\* partition-switch step is still entered.
C7_IndexFailureNotFatal ==
    Failed(IndexOps) # {} =>
        /\ exc.op \notin IndexOps
        /\ result.exc.op \notin IndexOps
        /\ (pc = "switch_partitions" \/ "_switch_partitions" \in entered)

\* C7 witness: an index creation failed and the invocation still switched
\* a partition in and returned 'success'.
C7_Witness ==
    /\ pc = "done"
    /\ result.status = "success"
    /\ Failed({"create_index"}) # {}
    /\ \E i \in Issued("switch_in") : log[i].ok

\* C8 (as claimed): once the index query answered, the creation of every
\* index of the live table is attempted, whichever creation failed.
C8_EveryIndexAttempted ==
    ("_switch_partitions" \in entered /\ \E i \in Issued("indexes_query") : log[i].ok) =>
        \A x \in 1..indexes : \E i \in Issued("create_index") : log[i].arg = x

SplitArgs ==
    LET splits == SelectSeq(log, LAMBDA e : e.op = "split_range")
    IN [k \in 1..Len(splits) |-> splits[k].arg]
ExpectedSplits == SortedSeq(ToSet(required_partitions) \ ToSet(existing_partitions))

\* C9: reconciliation issues SPLIT RANGE for the values of required minus
\* existing, in ascending order, and for no other value; having created
\* them all it returns exactly that list; an empty required list makes no
\* lookup, creates nothing and returns the empty list.
C9_ReconcileCreatesExactlyMissing ==
    LET issued == SplitArgs
        expected == ExpectedSplits
    IN /\ IsPrefix(issued, expected)
       /\ ToSet(issued) \cap ToSet(existing_partitions) = {}
       /\ "_ensure_partitions_exist" \in returned =>
             /\ issued = expected
             /\ partitions_created = expected
       /\ required_partitions = <<>> =>
             /\ Issued("existing_partitions") = {}
             /\ issued = <<>>
             /\ partitions_created = <<>>

\* C9 witness: one required boundary existed, the other was created, and
\* reconciliation returned.
C9_Witness ==
    /\ "_ensure_partitions_exist" \in returned
    /\ Len(required_partitions) = 2
    /\ Len(existing_partitions) = 1
    /\ existing_partitions[1] = required_partitions[1]
    /\ partitions_created = <<required_partitions[2]>>

\* C10 (as claimed): no SPLIT RANGE is issued for a value that is a
\* boundary of the partition function at that moment.
C10_NeverSplitsExistingBoundary ==
    \A i \in Issued("split_range") :
        /\ log[i].arg \notin preBoundaries
        /\ \A j \in 1..(i - 1) : log[j] # Entry("target", "split_range", log[i].arg, TRUE)

\* The operations refresh_table issues up to and including reconciliation,
\* and the staging drop.
PlanOps == {"get_max_value", "select_all", "select_where", "existing_partitions",
            "split_range", "drop_staging"}

\* C11: a failed boundary creation is fatal.  After the first SPLIT RANGE
\* that fails no further boundary is attempted, no staging table is
\* created, no row is loaded and no partition is switched; the only
\* operation that follows is the staging drop, the invocation raises that
\* failure, and the boundaries created before it stay in the partition
\* function.
C11_BoundaryFailureIsFatal ==
    LET f == Failed({"split_range"})
    IN f # {} =>
          LET i == First(f)
          IN /\ \A j \in LogIdx :
                   /\ log[j].op \in PlanOps
                   /\ j > i => log[j].op = "drop_staging"
                   /\ (j < i /\ log[j].op = "split_range") => log[j].arg \in boundaries
             /\ ~staging.exists
             /\ liveRows = preLive
             /\ boundaries = preBoundaries \cup ToSet(partitions_created)
             /\ Len(partitions_created) = Cardinality(Issued("split_range")) - 1
             /\ pc = "done" =>
                   /\ Cardinality(Issued("drop_staging")) = 1
                   /\ result.status = "raised"
                   /\ result.exc = Exc("split_range", log[i].arg)

\* C11 witness: the first missing boundary was created, the creation of the
\* second one failed, the invocation raised and the first boundary is
\* still there.
C11_Witness ==
    /\ pc = "done"
    /\ result.status = "raised"
    /\ result.exc.op = "split_range"
    /\ Len(partitions_created) = 1
    /\ partitions_created[1] \in boundaries \ preBoundaries
    /\ result.exc.arg \notin boundaries

\* The day index of the calendar day a value names, for the shapes the
\* derivation is specified for: a date, a datetime, a pre-encoded integer,
\* a text that starts with YYYYMMDD.
DayNamed(v) ==
    {d \in Days :
        \/ v.kind \in {"date", "datetime"} /\ v.n = d
        \/ v.kind = "int" /\ v.n = Ymd(d)
        \/ v.kind = "str" /\ Take(Text(v.n), 8) = Strftime(CalDate(d))}

\* C12 (as claimed): the derived list is ascending and duplicate-free and
\* holds, for every row whose value names a calendar day, the YYYYMMDD
\* integer of that day, whichever shape the value has.
C12_SameBoundaryForEveryShape ==
    (pc = "derived" /\ cfg.incremental_column) =>
        /\ \A i \in 1..(Len(required_partitions) - 1) :
              required_partitions[i] < required_partitions[i + 1]
        /\ \A i \in 1..Len(data) : \A d \in DayNamed(data[i]) :
              Ymd(d) \in ToSet(required_partitions)

\* The refresh is carried out (no dry run) by SimpleCopyStrategy.
SimpleRun == cfg.strategy = "simple_copy" /\ ~svc.dry_run
\* Some strategy the code knows carries the refresh out.
StrategyRun == cfg.strategy \in KnownStrategies /\ ~svc.dry_run

\* C13 (as claimed): when the query that reads the watermark of a configured
\* column fails, the refresh of the table fails, and no unrestricted fetch
\* is executed in its place.
C13_WatermarkFailurePropagates ==
    (StrategyRun /\ cfg.incremental_column /\ Failed({"get_max_value"}) # {}) =>
        /\ Issued("select_all") = {}
        /\ pc = "done" => result.status = "raised"

\* C15 (as claimed): a table whose strategy or whose sync_mode is not one the
\* code supports fails with an error before any handler operation is issued.
C15_ConfigErrorFailsFast ==
    (~svc.dry_run /\ (\/ cfg.strategy \notin KnownStrategies
                      \/ cfg.sync_mode \notin {"full_replace", "incremental", "smart_sync"})) =>
        /\ log = <<>>
        /\ pc = "done" => result.status = "raised"

\* C16: a simple-copy incremental refresh whose watermark read came back
\* absent builds and issues no restricted query; when no operation failed
\* it has read the source with no WHERE clause, loaded every row read,
\* and returned status 'success' with sync_mode 'full_replace'.
C16_NoWatermarkDegradesToFull ==
    (SimpleRun /\ cfg.sync_mode = "incremental"
               /\ Issued("get_max_value") # {} /\ watermark = {}) =>
        /\ Issued("select_where") = {}
        /\ Issued("build_where") = {}
        /\ (pc = "done" /\ FatalIdx = {}) =>
              /\ \E i \in Issued("select_all") : log[i].ok
              /\ FetchedRows \subseteq liveRows
              /\ result.status = "success"
              /\ result.sync_mode = "full_replace"
              /\ result.rows_processed = Len(data)

\* C16 witness: the target was empty, the watermark read answered None, and
\* the refresh loaded source rows and returned.
C16_Witness ==
    /\ SimpleRun /\ cfg.sync_mode = "incremental"
    /\ preLive = {}
    /\ \E i \in Issued("get_max_value") : log[i].ok
    /\ pc = "done"
    /\ result.status = "success"
    /\ Len(data) > 0

\* The column values the target held before the refresh.
PriorKeys == {r.key : r \in {x \in preLive : x.key # 0}}

\* C17: in both strategies, when the target holds no value of the column no
\* restricted query is built or issued; when the watermark read is absent
\* the source is queried without a predicate or not at all; when it is
\* present it is the maximum of the target, the source is never queried
\* without a predicate, and every restricted query carries the bound
\* built from that value.
C17_NoSentinelWatermark ==
    StrategyRun =>
        /\ PriorKeys = {} => Issued("select_where") = {} /\ Issued("build_where") = {}
        /\ watermark = {} => Issued("select_where") = {} /\ Issued("build_where") = {}
        /\ watermark # {} =>
              /\ Issued("select_all") = {}
              /\ \A w \in watermark :
                    /\ w.n \in PriorKeys
                    /\ \A k \in PriorKeys : k <= w.n
                    /\ \A i \in Issued("select_where") :
                          log[i].arg = BuildWhere(cfg, w).bound

\* C17 witness: a simple-copy refresh read a watermark and issued the query
\* restricted by it.
C17_Witness ==
    /\ SimpleRun
    /\ pc = "done"
    /\ watermark # {}
    /\ \E i \in Issued("select_where") : log[i].ok /\ log[i].arg = Ymd(MaxDay)

\* C18: with sync_mode 'incremental' or 'smart_sync' and no incremental
\* column, neither strategy builds or issues a restricted query, and a
\* refresh in which no operation but the watermark read failed has read
\* the source without a predicate and returned 'success'.
C18_UnsetColumnFallsBackToFull ==
    (StrategyRun /\ cfg.sync_mode \in {"incremental", "smart_sync"}
                 /\ ~cfg.incremental_column) =>
        /\ Issued("select_where") = {}
        /\ Issued("build_where") = {}
        /\ (pc = "done" /\ FatalIdx = {}) =>
              /\ result.status = "success"
              /\ \E i \in Issued("select_all") : log[i].ok

\* C18 witness: a simple-copy incremental refresh without a column whose
\* watermark read failed, and which returned 'success'.
C18_Witness ==
    /\ SimpleRun /\ cfg.sync_mode = "incremental" /\ ~cfg.incremental_column
    /\ Failed({"get_max_value"}) # {}
    /\ pc = "done"
    /\ result.status = "success"
    /\ result.rows_processed > 0

\* C19: a successful smart-sync result is tagged by the row count of the
\* target alone: 'smart_sync_full' when the target was empty,
\* 'smart_sync_incremental' when it was not, whatever the watermark read
\* gave.
C19_SmartSyncTagFollowsCount ==
    (SimpleRun /\ cfg.sync_mode = "smart_sync" /\ pc = "done"
               /\ result.status = "success") =>
        result.sync_mode = IF preLive = {} THEN "smart_sync_full"
                           ELSE "smart_sync_incremental"

\* C19 witness: the target had rows, the watermark read came back absent,
\* and the result is tagged 'smart_sync_incremental'.
C19_Witness ==
    /\ SimpleRun /\ cfg.sync_mode = "smart_sync"
    /\ pc = "done"
    /\ preLive # {}
    /\ Issued("get_max_value") # {} /\ watermark = {}
    /\ result.status = "success"
    /\ result.sync_mode = "smart_sync_incremental"

\* C20 (as claimed): smart sync on a target that holds rows never truncates
\* the target and never reads the source without a predicate.
C20_SmartSyncNonEmptyIsIncremental ==
    (SimpleRun /\ cfg.sync_mode = "smart_sync" /\ preLive # {}) =>
        /\ Issued("truncate") = {}
        /\ Issued("select_all") = {}

\* C14: refresh_table never lets an exception out: an unknown table, an
\* unknown strategy and every exception of a strategy become a result of
\* status 'error' with the message and a timestamp; a run attempts the
\* named tables one by one in their order, each from its own
\* configuration, and ends with exactly one result per table, in that
\* order, whatever the earlier tables did.
C14_ServiceIsolatesFailures ==
    /\ pc # "svc_raised"
    /\ svc.idx > 0 =>
          /\ Len(svc.results) = svc.idx - 1
          /\ svc.idx <= Len(svc.names) + 1
          /\ (pc = "svc_done") <=> (svc.idx = Len(svc.names) + 1)
          /\ pc \notin {"svc_next", "svc_done"} => cfg = svc.tables[svc.names[svc.idx]]
          /\ \A i \in 1..Len(svc.results) :
                LET r == svc.results[i]
                IN /\ r.table_name = svc.names[i]
                   /\ r.status \in {"success", "error", "dry_run"}
                   /\ r.status = "error" <=> r.error # NoExc
                   /\ r.status = "error" <=> r.timestamp
                   /\ svc.names[i] \notin 1..Len(svc.tables) =>
                         r.error = Exc("table_not_found", svc.names[i])
                   /\ (svc.names[i] \in 1..Len(svc.tables)
                       /\ svc.tables[svc.names[i]].strategy \notin KnownStrategies) =>
                         r.error = Exc("unknown_strategy", 0)

\* C14 witness: a run over two tables whose first table failed inside the
\* strategy and whose second table was refreshed.
C14_Witness ==
    /\ pc = "svc_done"
    /\ Len(svc.names) = 2
    /\ svc.results[1].status = "error"
    /\ svc.results[1].error.op = "select_all"
    /\ svc.results[2].status = "success"

\* C21: the incremental predicate over column c and watermark w is c > w
\* for type identity; c >= w - date_buffer_days for type date or datetime
\* with a positive buffer (date, buffer 7, w = day 15 gives c >= day 8);
\* c > w for date or datetime with buffer 0; and c > w for any other or
\* unspecified type, whatever the buffer.
C21_PredicateForms ==
    pc = "clause_built" =>
        LET w == CHOOSE x \in watermark : TRUE
            strict == ~result.raises /\ result.cmp = ">" /\ result.bound = w.n
            dated == cfg.incremental_type \in {"date", "datetime"}
        IN /\ cfg.incremental_type = "identity" => strict
           /\ dated /\ cfg.date_buffer_days > 0 /\ w.kind \in {"date", "datetime"} =>
                 /\ ~result.raises
                 /\ result.cmp = ">="
                 /\ result.bound = w.n - cfg.date_buffer_days
           /\ dated /\ cfg.date_buffer_days = 0 => strict
           /\ cfg.incremental_type \notin {"identity", "date", "datetime"} => strict

C21_Witness ==
    /\ pc = "clause_built"
    /\ cfg.incremental_type = "date"
    /\ cfg.date_buffer_days = 7
    /\ \E w \in watermark : w.kind = "date" /\ result.bound = w.n - 7
    /\ result.cmp = ">="

\* C22: a full refresh of the simple copy whose source read returns zero
\* rows issues no bulk_insert, writes no row, and returns status 'success'
\* with rows_processed = 0.
C22_EmptyFullRefreshSucceeds ==
    (SimpleRun /\ "_full_refresh" \in entered /\ data = <<>>
               /\ \E i \in Issued("select_all") : log[i].ok) =>
        /\ Issued("bulk_insert") = {}
        /\ {r \in liveRows : r.src = "new"} = {}
        /\ pc = "done"
        /\ result.status = "success"
        /\ result.rows_processed = 0

\* C22 witness: a configured full refresh read an empty source and returned.
C22_Witness ==
    /\ SimpleRun /\ cfg.sync_mode = "full_replace"
    /\ \E i \in Issued("select_all") : log[i].ok
    /\ data = <<>>
    /\ pc = "done"
    /\ result.status = "success"
    /\ result.rows_processed = 0

\* C23 (as claimed): after a simple-copy refresh that failed, the target
\* holds all of the rows fetched in the invocation or none of them.
C23_NoPartialCommit ==
    (SimpleRun /\ pc = "done" /\ result.status = "raised") =>
        \/ FetchedRows \subseteq liveRows
        \/ FetchedRows \cap liveRows = {}

\* C27: an incremental simple-copy refresh that found a watermark w read
\* the target's maximum exactly once and first; when it returns without a
\* failure it has queried the source once, with the predicate built from
\* w, holds exactly the prior rows and the rows returned, and reports
\* status 'success', sync_mode 'incremental', rows_processed equal to the
\* number of rows inserted and incremental_from equal to the text of w
\* itself, not of the buffered bound.
C27_IncrementalLoadsFromWatermark ==
    (SimpleRun /\ cfg.sync_mode = "incremental" /\ watermark # {}) =>
        LET w == CHOOSE x \in watermark : TRUE
            where == BuildWhere(cfg, w)
            reads == SelectSeq(log, LAMBDA e : e.op = "get_max_value")
            queries == SelectSeq(log, LAMBDA e : e.h = "source")
        IN /\ reads = <<Entry("target", "get_max_value", 0, TRUE)>>
           /\ log[1] = reads[1]
           /\ (pc = "done" /\ FatalIdx = {}) =>
                 /\ queries = <<Entry("source", "select_where", where.bound, TRUE)>>
                 /\ \A i \in 1..Len(data) : Satisfies(data[i], where)
                 /\ liveRows = preLive \cup FetchedRows
                 /\ result.status = "success"
                 /\ result.sync_mode = "incremental"
                 /\ result.rows_processed = Cardinality(liveRows \ preLive)
                 /\ result.rows_processed = Len(data)
                 /\ result.incremental_from =
                       {IF w.kind = "date" THEN IsoDate(CalDate(w.n)) ELSE Decimal(w.n)}

\* C27 witness: a buffered incremental refresh of a date column loaded rows
\* and returned.
C27_Witness ==
    /\ SimpleRun /\ cfg.sync_mode = "incremental"
    /\ cfg.date_buffer_days > 0
    /\ \E w \in watermark : w.kind = "date"
    /\ pc = "done"
    /\ result.status = "success"
    /\ result.rows_processed > 0

\* C28: a buffered incremental simple-copy refresh of a date column
\* queries from the watermark moved back by the buffer, so rows at or
\* below the watermark are fetched, and it appends every fetched row to
\* the rows the target held: none is merged with a row already there.
C28_BufferedRowsAreAppended ==
    (SimpleRun /\ cfg.incremental_type = "date" /\ cfg.date_buffer_days > 0
               /\ \E i \in Issued("select_where") : log[i].ok) =>
        LET w == CHOOSE x \in watermark : TRUE
        IN /\ \A i \in Issued("select_where") : log[i].arg = w.n - cfg.date_buffer_days
           /\ \A i \in 1..Len(data) : data[i].n >= w.n - cfg.date_buffer_days
           /\ (pc = "done" /\ result.status = "success") =>
                 /\ preLive \subseteq liveRows
                 /\ Cardinality(liveRows) = Cardinality(preLive) + Len(data)

\* C28 witness: the target held the row of a day, the buffered query
\* fetched the source row of that day again, and after the refresh the
\* target holds both.
C28_Witness ==
    /\ SimpleRun /\ cfg.sync_mode = "incremental"
    /\ cfg.date_buffer_days > 0
    /\ pc = "done"
    /\ result.status = "success"
    /\ \E i \in 1..Len(data) :
          /\ data[i].kind = "date"
          /\ OldRow(data[i].n) \in preLive
          /\ {OldRow(data[i].n), NewRow(i, data[i])} \subseteq liveRows
          /\ NewRow(i, data[i]).key = OldRow(data[i].n).key

\* The handler operations of the log, each with its argument.
Attempts == {<<log[i].h, log[i].op, log[i].arg>> : i \in LogIdx}
AnyFailure == {i \in LogIdx : ~log[i].ok}

\* After the operation at position f only the staging drop of the
\* staging-switch strategy is issued, once.
OnlyDropFollows(f) ==
    /\ Len(log) <= f + 1
    /\ Len(log) = f + 1 =>
          /\ log[f + 1].op = "drop_staging"
          /\ cfg.strategy = "staging_partition_switch"

\* C24 (as claimed): in one invocation of either strategy every handler
\* operation is attempted at most once, and after the first operation that
\* raises no further handler operation is issued except the single staging
\* drop of the staging-switch strategy.
C24_NoOperationAfterFirstRaise ==
    StrategyRun =>
        /\ Cardinality(Attempts) = Len(log)
        /\ AnyFailure # {} => OnlyDropFollows(First(AnyFailure))

\* C24 (amended): in one invocation of either strategy every handler
\* operation is attempted at most once, and after the first failure that
\* the code does not catch and log (it catches those of the watermark
\* read, the existing-boundary lookup, the index replication and the
\* staging drop) no further handler operation is issued except the single
\* staging drop of the staging-switch strategy.
C24_NothingRetried ==
    StrategyRun =>
        /\ Cardinality(Attempts) = Len(log)
        /\ FatalIdx # {} => OnlyDropFollows(First(FatalIdx))

\* C24 witness: a staging-switch invocation went on after a failed index
\* creation, then failed in the switch, dropped the staging table and
\* raised.
C24_Witness ==
    /\ StrategyRun /\ cfg.strategy = "staging_partition_switch"
    /\ pc = "done"
    /\ result.status = "raised"
    /\ Failed({"create_index"}) # {}
    /\ FatalIdx # {}
    /\ log[First(FatalIdx)].op \in SwitchOps
    /\ log[Len(log)].op = "drop_staging"

\* One step of a strictly sequential batch run.
SequentialStep ==
    /\ (log' # log /\ log' # <<>>) =>
          /\ svc' = svc
          /\ svc.idx \in 1..Len(svc.names)
          /\ Len(svc.results) = svc.idx - 1
          /\ cfg = svc.tables[svc.names[svc.idx]]
          /\ pc \notin {"svc_next", "svc_done", "done"}
    /\ svc'.idx # svc.idx =>
          /\ svc'.idx = svc.idx + 1
          /\ svc'.results = Append(svc.results, svc'.results[svc.idx])
          /\ pc \in {"svc_next", "done"}
          /\ log' = <<>>
          /\ pc' \in {"svc_next", "svc_done"}

C26_StagingSuccessResult ==
    (pc = "done" /\ \A i \in LogIdx : log[i].ok \/ log[i].op = "build_where") =>
        /\ result.status = "success"
        /\ result.strategy = "staging_partition_switch"
        /\ result.rows_processed = Len(data)
        /\ result.partitions_created = partitions_created
        /\ result.partitions_created = SplitArgs

\* The step of the staging-switch pipeline an operation belongs to; the
\* operations of the simple copy alone belong to none.
Phase(op) ==
    CASE op \in {"get_max_value", "build_where", "select_all", "select_where"} -> 1
      [] op = "existing_partitions" -> 2
      [] op = "split_range" -> 3
      [] op = "create_staging" -> 4
      [] op = "bulk_insert" -> 5
      [] op \in IndexOps -> 6
      [] op \in SwitchOps -> 7
      [] op = "drop_staging" -> 8
      [] OTHER -> 0
LoggedOps ==
    PlanOps \cup IndexOps \cup SwitchOps
    \cup {"build_where", "create_staging", "bulk_insert", "get_table_count", "truncate"}
PhaseOf == [op \in LoggedOps |-> Phase(op)]

\* C30: within one staging-switch invocation the operations occur in the
\* order fetch, read of existing boundaries, boundary creations, staging
\* creation, bulk load, index replication, partition switches, staging
\* drop: no operation of an earlier step follows one of a later step (so
\* no boundary is created once the staging creation was issued), the
\* staging table is created and loaded at most once, the load follows the
\* successful creation of the staging table, the index replication the
\* successful load and the partition switches the index replication, and
\* nothing follows the staging drop.
C30_PipelineIsLinear ==
    \A k \in LogIdx :
        LET p == PhaseOf[log[k].op]
        IN /\ p \in 1..8
           /\ k < Len(log) =>
                 LET q == PhaseOf[log[k + 1].op]
                 IN /\ p <= q
                    /\ p < 8
                    /\ p = q => p \notin {4, 5}
                    /\ q = 5 => log[k].op = "create_staging" /\ log[k].ok
                    /\ (q = 6 /\ p < 6) => log[k].op = "bulk_insert" /\ log[k].ok
                    /\ (q = 7 /\ p < 7) => p = 6

\* C30 witness: an invocation that went through every step: it created a
\* boundary, replicated an index, switched a partition and dropped the
\* staging table.
C30_Witness ==
    /\ pc = "done"
    /\ result.status = "success"
    /\ Issued("existing_partitions") # {}
    /\ Issued("split_range") # {}
    /\ Issued("create_index") # {}
    /\ Issued("switch_in") # {}
    /\ log[Len(log)].op = "drop_staging"

\* C29 (as claimed): a staging-switch invocation that follows a failed one
\* for the same table is never made to fail by what the failed one left:
\* as long as none of its operations has failed, the staging table it is
\* about to create does not exist, the boundary it is about to create is
\* no boundary yet, the holder table it is about to create does not exist,
\* and when it ends it returns status 'success'.
C29_FailedRunIsRetryable ==
    (attempt = 2 /\ AnyFailure = {}) =>
        /\ pc = "create_staging" => ~staging.exists
        /\ pc = "create_partition" => Head(missing_partitions) \notin boundaries
        /\ pc = "create_holder" => required_partitions[swIdx] \notin DOMAIN holders
        /\ pc = "done" => result.status = "success"

\* A staging-switch invocation whose fetch was answered.
StagingRun == cfg.strategy = "staging_partition_switch" /\ ~svc.dry_run
Fetched == \E i \in LogIdx : log[i].h = "source" /\ log[i].ok

\* C31: when the fetch of a staging-switch invocation returns no rows, no
\* boundary is looked up or created, no staging table is created, nothing
\* is loaded, no index is replicated and no partition is switched: the
\* only target operation after the fetch is the staging drop, partition
\* function and live table are as before, and the invocation returns
\* status 'success' with rows_processed = 0 and partitions_created = [].
\* Index replication and partition switches are issued only after a load
\* that reported inserted rows.
C31_EmptyFetchTouchesNothing ==
    StagingRun =>
        /\ (Fetched /\ data = <<>>) =>
              /\ \A i \in LogIdx :
                    log[i].op \in {"get_max_value", "select_all", "select_where",
                                   "drop_staging"}
              /\ ~staging.exists
              /\ holders = <<>>
              /\ boundaries = preBoundaries
              /\ liveRows = preLive
              /\ pc \in {"cleanup", "done"}
              /\ pc = "done" =>
                    /\ result.status = "success"
                    /\ result.rows_processed = 0
                    /\ result.partitions_created = <<>>
        /\ (\E i \in LogIdx : log[i].op \in IndexOps \cup SwitchOps) =>
              rows_inserted > 0

\* C31 witness: an incremental staging-switch invocation over a target
\* that holds rows fetched nothing new and returned.
C31_Witness ==
    /\ StagingRun
    /\ preLive # {}
    /\ Issued("select_where") # {}
    /\ Fetched
    /\ data = <<>>
    /\ pc = "done"
    /\ result.status = "success"
    /\ log[Len(log)].op = "drop_staging"

\* C32: in the simple copy the target is truncated only when
\* truncate_target is set, only by a full refresh, at most once and before
\* any source read or insert; a full refresh with truncate_target set
\* reads the source and inserts only after the truncation succeeded; and
\* an incremental refresh that found a watermark issues no truncation and
\* keeps every prior row, whatever truncate_target is.
C32_TruncationFollowsConfig ==
    SimpleRun =>
        LET cuts == Issued("truncate")
            moves == {i \in LogIdx : log[i].op \in {"select_all", "select_where",
                                                    "bulk_insert"}}
        IN /\ Cardinality(cuts) <= 1
           /\ cuts # {} =>
                 /\ cfg.truncate_target
                 /\ "_full_refresh" \in entered
                 /\ \A i \in moves : First(cuts) < i
           /\ ("_full_refresh" \in entered /\ cfg.truncate_target /\ moves # {}) =>
                 \E i \in cuts : log[i].ok
           /\ watermark # {} => cuts = {} /\ preLive \subseteq liveRows

\* C32 witness: a full refresh with truncate_target set truncated a target
\* that held rows, then read the source and loaded rows.
C32_Witness ==
    /\ SimpleRun /\ cfg.sync_mode = "full_replace" /\ cfg.truncate_target
    /\ preLive # {}
    /\ pc = "done"
    /\ result.status = "success"
    /\ Len(log) = 3
    /\ log[1].op = "truncate" /\ log[2].op = "select_all" /\ log[3].op = "bulk_insert"
    /\ preLive \cap liveRows = {}

\* C33 (as claimed): a simple-copy full refresh with truncate_target set
\* that raised has left the rows the target held before it in place.
C33_FailedTruncatingRefreshKeepsRows ==
    (SimpleRun /\ "_full_refresh" \in entered /\ cfg.truncate_target
               /\ pc = "done" /\ result.status = "raised") =>
        preLive \subseteq liveRows

\* C34 (as claimed): whenever a staging-switch refresh returns status
\* 'success' with rows_processed = n > 0, all n rows it staged are in the
\* live table afterwards.
C34_StagedRowsReachLive ==
    (pc = "done" /\ result.status = "success" /\ result.rows_processed > 0) =>
        FetchedRows \subseteq liveRows

\* C35 (as claimed): a successful incremental staging-switch refresh that
\* found a watermark only adds rows: every row the live table held before
\* it is still in the live table afterwards.
C35_IncrementalOnlyAddsRows ==
    (cfg.sync_mode = "incremental" /\ watermark # {}
        /\ pc = "done" /\ result.status = "success") =>
        preLive \subseteq liveRows

\* The second of two refreshes over an unchanged source, the first of which
\* returned the result of an incremental refresh.
SecondAfterIncremental ==
    /\ attempt = 2
    /\ cfg.sync_mode = "incremental"
    /\ cfg.date_buffer_days = 0
    /\ svc.results[1].sync_mode = "incremental"

\* C36: with date_buffer_days = 0, an incremental simple-copy refresh that
\* follows a successful incremental one over an unchanged source selects
\* no row, inserts no row and leaves the target as it was.
C36_SecondRefreshSelectsNothing ==
    (SecondAfterIncremental /\ pc = "done" /\ result.status = "success") =>
        /\ data = <<>>
        /\ result.rows_processed = 0
        /\ liveRows = preLive

\* The same where the watermark query of the second refresh was answered.
C36_HoldsWhenWatermarkRead ==
    (SecondAfterIncremental /\ pc = "done" /\ result.status = "success"
       /\ Failed({"get_max_value"}) = {}) =>
        /\ data = <<>>
        /\ result.rows_processed = 0
        /\ liveRows = preLive

\* C37: of two staging-switch refreshes of one table in flight at once,
\* neither loads into, switches from or drops a staging table the other
\* created, and each switches into the live table only rows it staged
\* itself.
C37_InvocationsKeepToTheirOwnStaging ==
    \A t \in Invocations :
        \A i \in 1..Len(log[t]) :
            /\ log[t][i].owner \in {"none", Tag(t)}
            /\ \A r \in log[t][i].rows : r.src = Tag(t)

\* C38: in a dry run, refresh_table issues no source or target operation
\* and changes nothing in the target; for a table of a known strategy it
\* returns status 'dry_run' with the configured strategy and sync_mode, and
\* for one of an unknown strategy the result is 'error', the strategy
\* being validated before the dry-run setting is read.
C38_DryRunIssuesNothing ==
    svc.dry_run =>
        /\ log = <<>>
        /\ liveRows = preLive /\ boundaries = preBoundaries
        /\ staging = NoStaging /\ holders = <<>>
        /\ pc \in {"svc_next", "get_strategy", "invoke", "done", "svc_done"}
        /\ pc = "invoke" => cfg.strategy \in KnownStrategies
        /\ pc = "done" =>
              IF cfg.strategy \in KnownStrategies
              THEN result = [status |-> "dry_run", strategy |-> cfg.strategy,
                             sync_mode |-> cfg.sync_mode, exc |-> NoExc]
              ELSE /\ result.status = "raised"
                   /\ result.exc = Exc("unknown_strategy", 0)
        /\ \A i \in 1..Len(svc.results) :
              svc.results[i].status =
                  IF /\ svc.names[i] \in 1..Len(svc.tables)
                     /\ svc.tables[svc.names[i]].strategy \in KnownStrategies
                  THEN "dry_run" ELSE "error"

C38_Witness ==
    /\ svc.dry_run
    /\ pc = "svc_done"
    /\ Len(svc.results) = 2
    /\ svc.tables[svc.names[1]].strategy = "staging_partition_switch"
    /\ svc.results[1].status = "dry_run"
    /\ svc.tables[svc.names[2]].strategy \notin KnownStrategies
    /\ svc.results[2].status = "error"
    /\ svc.results[2].error = Exc("unknown_strategy", 0)

\* The driver calls of the kind `op` made so far, and the first call that
\* raised.
Calls(op) == {i \in LogIdx : log[i].op = op}
Raised == {i \in LogIdx : ~log[i].ok}
OperationCalls == Raised \ (Calls("rollback") \cup Calls("close"))

\* C39: a connection that get_connection opened is closed exactly once on
\* every exit of the operation, and the close is the last call on it; when
\* the operation raised, one rollback was issued before the close and the
\* call raises (the operation's exception, unless rollback or close raised
\* one of their own); when the connection could not be opened nothing is
\* rolled back or closed; without an exception nothing is rolled back.
C39_ConnectionClosedOnce ==
    /\ Cardinality(Calls("connect")) <= 1
    /\ Cardinality(Calls("close")) <= 1
    /\ Cardinality(Calls("rollback")) <= 1
    /\ \A i \in Calls("close") : i = Len(log) /\ pc = "done"
    /\ \A i \in Calls("rollback") : OperationCalls # {} /\ Conn
    /\ ~Conn => Calls("rollback") \cup Calls("close") = {}
    /\ pc = "done" =>
          /\ Conn => Cardinality(Calls("close")) = 1
          /\ (Conn /\ OperationCalls # {}) =>
                /\ Cardinality(Calls("rollback")) = 1
                /\ \A i \in Calls("rollback"), j \in Calls("close") : i < j
          /\ Raised # {} <=> result.status = "raised"
          /\ Raised = {} <=> result.status = "returned"
          /\ (OperationCalls # {} /\ Raised = OperationCalls) =>
                result.exc.op = log[First(OperationCalls)].op

C39_Witness ==
    /\ pc = "done"
    /\ entered = {"bulk_insert"}
    /\ rows_inserted = 2
    /\ \E i \in Calls("commit") : log[i].ok
    /\ \E i \in Calls("executemany") : ~log[i].ok
    /\ \E i \in Calls("rollback"), j \in Calls("close") : i < j /\ log[i].ok /\ log[j].ok
    /\ result.status = "raised"
    /\ result.exc.op = "executemany"

====
